---- MODULE Spec2Model ----
(***************************************************************************)
(* Clause compliance verification and risk scoring engine.                 *)
(*                                                                         *)
(* Python strings are modelled as sequences of one-character strings so    *)
(* that lower(), capitalize(), join, substring search and startswith are   *)
(* computed character by character, as the interpreter computes them.      *)
(* Python None is the value None below; it differs from the string "None". *)
(***************************************************************************)
EXTENDS Integers, Sequences, FiniteSets, TLC

VARIABLES
  \* RiskExplainer.explain_risk applied to one verifier result
  verifier_result,   \* the argument of explain_risk
  risk_result,       \* what explain_risk returned (NotCalled before the call)
  risk_pc            \* "input" before the call, "returned" after it

riskVars == <<verifier_result, risk_result, risk_pc>>

VARIABLES
  \* one ComplianceAgent and the ensure_compliance call in progress on it
  agent_pc,              \* "unconstructed", "ready", "retrieving", "verifying",
                         \* "explaining", "done" or "raised"
  llm_client,            \* LLMVerifier.llm_client
  retriever,             \* RegulationRetriever's fields metadata, embedding_model, es, index
  clauses,               \* the argument of ensure_compliance
  relevant_rules,        \* what retrieve_similar_rules returned
  verification_results,  \* the list verify_clauses is building / has returned
  returned,              \* the dict ensure_compliance returned, None before
  raised,                \* the exception that left ensure_compliance, None if none
  llm_calls,             \* every request sent to an LLM endpoint with its reply, in order
  fault_met,             \* the fault the retrieval of this call met, "none" if none
  \* the search backend, which outlives every agent
  es_index_exists,       \* the index sebi_compliance_index exists
  es_docs                \* number of corpus documents it holds

agentVars ==
  <<agent_pc, llm_client, retriever, clauses, relevant_rules,
    verification_results, returned, raised, llm_calls, fault_met>>

esVars == <<es_index_exists, es_docs>>

VARIABLES
  \* the document statistics computed from one compliance result
  compliance_results,    \* what ensure_compliance returned to the caller
  compliance_stats,      \* the compliance_stats the caller derived, None before
  stats_pc,              \* "input", then the caller that computed the statistics
  upload_clauses,        \* data["Clauses"] of the uploaded document, None before
  analysis_data          \* the clauses get_document_analysis reports, None before

statsVars == <<compliance_results, compliance_stats, stats_pc, upload_clauses,
               analysis_data>>

VARIABLES
  \* one call of a provider function that parses with safe_json_response
  raw,                   \* Some(response.text), None before the model answered
  parse_result,          \* what the provider function returned or raised
  parse_pc               \* "idle", "generating", "parsing" or "returned"

parseVars == <<raw, parse_result, parse_pc>>

VARIABLES
  \* one ConversationalComplianceAgent, its verifier and the calls in progress
  llm_verifier,          \* "unconstructed", or what self.llm_verifier is
  chat_retriever,        \* is self.retriever set
  conversation_history,  \* self.conversation_history: session id -> record or None
  chat_sessions,         \* the verifier's chat_sessions: session id -> entry or None
  chat_call,             \* per session id, the chat() call made last on it
  clock,                 \* per reading of datetime.now(), the session id it served
  chat_turns,            \* per session id, the chat() calls completed on its record
  requests_served        \* per session id, the requests compliance_chat served

chatVars == <<llm_verifier, chat_retriever, conversation_history, chat_sessions,
              chat_call, clock, chat_turns, requests_served>>

VARIABLES
  \* _analyze_intent applied to one message
  intent_message,        \* the message
  intent_result          \* the intent returned, "" before the call

intentVars == <<intent_message, intent_result>>

vars == <<riskVars, agentVars, esVars, statsVars, parseVars, chatVars, intentVars>>

(***************************************************************************)
(* Bounds of the model.                                                    *)
(***************************************************************************)
\* longest matched_rules list handed to explain_risk
MaxRules == 2

\* longest clause list handed to ensure_compliance
MaxClauses == 2

\* number of regulation chunks in metadata.pkl / faiss_index.bin
CorpusSize == 2

\* most clauses in a document whose statistics are computed
MaxStatClauses == 10

\* clock readings after which no further chat() or start_session() call is
\* made on the agent whose calls interleave
MaxClock == 4

\* chat() calls made on the one conversation whose history is followed
MaxTurns == 25

\* requests the chat endpoint serves
MaxRequests == 4

\* most clauses in an uploaded document
MaxUploadClauses == 3

(***************************************************************************)
(* Strings.                                                                *)
(***************************************************************************)
\* Python None
None == [py_none |-> TRUE]

\* a value that is not None, where None is possible too
Some(x) == [some |-> x]

\* an exception of the named class
Exception(class) == [exception |-> class]

\* what a call returned, or the exception that left it
Returns(value) == [raises |-> None, value |-> value]

Raises(exception) == [raises |-> exception, value |-> None]

\* a result slot nothing has been written to yet
NotCalled == [not_called |-> TRUE]

\* str.lower() on one ASCII character
LowerOf ==
  ("A" :> "a") @@ ("B" :> "b") @@ ("C" :> "c") @@ ("D" :> "d") @@ ("E" :> "e") @@
  ("F" :> "f") @@ ("G" :> "g") @@ ("H" :> "h") @@ ("I" :> "i") @@ ("J" :> "j") @@
  ("K" :> "k") @@ ("L" :> "l") @@ ("M" :> "m") @@ ("N" :> "n") @@ ("O" :> "o") @@
  ("P" :> "p") @@ ("Q" :> "q") @@ ("R" :> "r") @@ ("S" :> "s") @@ ("T" :> "t") @@
  ("U" :> "u") @@ ("V" :> "v") @@ ("W" :> "w") @@ ("X" :> "x") @@ ("Y" :> "y") @@
  ("Z" :> "z")

LowerChar(c) == IF c \in DOMAIN LowerOf THEN LowerOf[c] ELSE c

UpperChar(c) ==
  IF \E u \in DOMAIN LowerOf : LowerOf[u] = c
  THEN CHOOSE u \in DOMAIN LowerOf : LowerOf[u] = c
  ELSE c

\* str.lower()
Lower(s) == [i \in 1..Len(s) |-> LowerChar(s[i])]

\* str.upper()
Upper(s) == [i \in 1..Len(s) |-> UpperChar(s[i])]

\* str.capitalize(): first character upper-cased, the rest lower-cased
Capitalize(s) ==
  IF Len(s) = 0 THEN s ELSE <<UpperChar(s[1])>> \o Lower(Tail(s))

\* the Python test `needle in haystack` on strings
Contains(needle, haystack) ==
  \E i \in 0..(Len(haystack) - Len(needle)) :
     SubSeq(haystack, i + 1, i + Len(needle)) = needle

\* str.startswith
StartsWith(s, prefix) ==
  /\ Len(prefix) <= Len(s)
  /\ SubSeq(s, 1, Len(prefix)) = prefix

\* sep.join(parts)
RECURSIVE Join(_, _)
Join(sep, parts) ==
  IF Len(parts) = 0 THEN <<>>
  ELSE IF Len(parts) = 1 THEN parts[1]
  ELSE parts[1] \o sep \o Join(sep, Tail(parts))

(***************************************************************************)
(* risk_explainer_agent.py: the keyword corpus.  A Python dict iterates in *)
(* insertion order, so each dict is a sequence in source order.            *)
(***************************************************************************)
RISK_KEYWORDS ==
  <<
    [category |-> <<"L","e","g","a","l">>,  \* "Legal"
     levels |-> <<
       [severity |-> <<"l","o","w">>,  \* "low"
        score |-> 3,
        keywords |-> <<
          <<"d","a","t","a"," ","r","e","t","e","n","t","i","o","n">>,  \* "data retention"
          <<"e","m","a","i","l"," ","c","o","n","s","e","n","t">>,  \* "email consent"
          <<"b","a","s","i","c"," ","d","i","s","c","l","o","s","u","r","e">>,  \* "basic disclosure"
          <<"c","o","o","k","i","e"," ","b","a","n","n","e","r">>,  \* "cookie banner"
          <<"a","g","e"," ","v","e","r","i","f","i","c","a","t","i","o","n">>,  \* "age verification"
          <<"o","p","t","-","i","n"," ","f","o","r","m">>,  \* "opt-in form"
          <<"a","d","v","e","r","t","i","s","i","n","g"," ","g","u","i","d","e","l","i","n","e","s">>,  \* "advertising guidelines"
          <<"c","o","p","y","r","i","g","h","t"," ","n","o","t","i","c","e">>,  \* "copyright notice"
          <<"p","r","i","v","a","c","y"," ","n","o","t","i","c","e">>,  \* "privacy notice"
          <<"e","m","p","l","o","y","e","e"," ","c","o","n","d","u","c","t">>,  \* "employee conduct"
          <<"w","h","i","s","t","l","e","b","l","o","w","e","r">>,  \* "whistleblower"
          <<"t","r","a","i","n","i","n","g"," ","r","e","q","u","i","r","e","m","e","n","t">>,  \* "training requirement"
          <<"w","e","b","s","i","t","e"," ","p","o","l","i","c","y">>,  \* "website policy"
          <<"p","r","i","v","a","c","y"," ","s","h","i","e","l","d">>,  \* "privacy shield"
          <<"s","t","a","n","d","a","r","d"," ","c","o","n","t","r","a","c","t","u","a","l"," ","c","l","a","u","s","e">>,  \* "standard contractual clause"
          <<"b","a","s","i","c"," ","n","d","a">>,  \* "basic nda"
          <<"i","n","t","e","l","l","e","c","t","u","a","l"," ","p","r","o","p","e","r","t","y"," ","m","a","r","k","i","n","g">>,  \* "intellectual property marking"
          <<"b","r","a","n","d"," ","u","s","a","g","e">>,  \* "brand usage"
          <<"s","i","m","p","l","e"," ","c","o","n","t","r","a","c","t"," ","c","l","a","u","s","e">>,  \* "simple contract clause"
          <<"m","i","n","o","r"," ","c","o","m","p","l","i","a","n","c","e"," ","u","p","d","a","t","e">>  \* "minor compliance update"
        >>],
       [severity |-> <<"m","e","d","i","u","m">>,  \* "medium"
        score |-> 6,
        keywords |-> <<
          <<"H","I","P","A","A">>,  \* "HIPAA"
          <<"S","O","X">>,  \* "SOX"
          <<"P","C","I"," ","D","S","S">>,  \* "PCI DSS"
          <<"c","o","n","s","u","m","e","r"," ","p","r","o","t","e","c","t","i","o","n">>,  \* "consumer protection"
          <<"c","r","o","s","s","-","b","o","r","d","e","r"," ","d","a","t","a"," ","t","r","a","n","s","f","e","r">>,  \* "cross-border data transfer"
          <<"s","e","n","s","i","t","i","v","e"," ","p","e","r","s","o","n","a","l"," ","d","a","t","a">>,  \* "sensitive personal data"
          <<"d","a","t","a"," ","s","u","b","j","e","c","t"," ","r","i","g","h","t","s">>,  \* "data subject rights"
          <<"i","n","f","o","r","m","e","d"," ","c","o","n","s","e","n","t">>,  \* "informed consent"
          <<"r","e","t","e","n","t","i","o","n"," ","l","i","m","i","t","s">>,  \* "retention limits"
          <<"a","u","d","i","t"," ","o","b","l","i","g","a","t","i","o","n">>,  \* "audit obligation"
          <<"n","o","n","-","c","o","m","p","e","t","e">>,  \* "non-compete"
          <<"b","r","e","a","c","h"," ","o","f"," ","c","o","n","t","r","a","c","t">>,  \* "breach of contract"
          <<"e","x","p","o","r","t"," ","c","o","n","t","r","o","l">>,  \* "export control"
          <<"A","M","L"," ","(","a","n","t","i"," ","m","o","n","e","y"," ","l","a","u","n","d","e","r","i","n","g",")">>,  \* "AML (anti money laundering)"
          <<"l","i","c","e","n","s","i","n","g"," ","t","e","r","m","s">>,  \* "licensing terms"
          <<"G","D","P","R"," ","D","P","I","A">>,  \* "GDPR DPIA"
          <<"s","t","a","n","d","a","r","d"," ","o","f"," ","c","a","r","e">>,  \* "standard of care"
          <<"i","n","d","u","s","t","r","y"," ","c","o","m","p","l","i","a","n","c","e">>,  \* "industry compliance"
          <<"g","o","v","e","r","n","a","n","c","e"," ","p","o","l","i","c","y">>,  \* "governance policy"
          <<"h","a","r","a","s","s","m","e","n","t"," ","l","a","w">>  \* "harassment law"
        >>],
       [severity |-> <<"h","i","g","h">>,  \* "high"
        score |-> 9,
        keywords |-> <<
          <<"G","D","P","R">>,  \* "GDPR"
          <<"C","C","P","A">>,  \* "CCPA"
          <<"a","n","t","i","t","r","u","s","t">>,  \* "antitrust"
          <<"c","o","m","p","e","t","i","t","i","o","n"," ","l","a","w">>,  \* "competition law"
          <<"b","r","i","b","e","r","y">>,  \* "bribery"
          <<"c","o","r","r","u","p","t","i","o","n">>,  \* "corruption"
          <<"c","r","i","m","i","n","a","l"," ","l","i","a","b","i","l","i","t","y">>,  \* "criminal liability"
          <<"e","n","v","i","r","o","n","m","e","n","t","a","l"," ","v","i","o","l","a","t","i","o","n">>,  \* "environmental violation"
          <<"t","r","a","d","e"," ","s","e","c","r","e","t","s"," ","t","h","e","f","t">>,  \* "trade secrets theft"
          <<"f","r","a","u","d">>,  \* "fraud"
          <<"F","C","P","A">>,  \* "FCPA"
          <<"m","o","n","e","y"," ","l","a","u","n","d","e","r","i","n","g">>,  \* "money laundering"
          <<"s","a","n","c","t","i","o","n","s"," ","v","i","o","l","a","t","i","o","n">>,  \* "sanctions violation"
          <<"t","e","r","r","o","r","i","s","m"," ","f","i","n","a","n","c","i","n","g">>,  \* "terrorism financing"
          <<"c","h","i","l","d"," ","p","r","o","t","e","c","t","i","o","n"," ","l","a","w">>,  \* "child protection law"
          <<"d","i","s","c","r","i","m","i","n","a","t","i","o","n">>,  \* "discrimination"
          <<"i","l","l","e","g","a","l"," ","s","u","r","v","e","i","l","l","a","n","c","e">>,  \* "illegal surveillance"
          <<"h","u","m","a","n"," ","r","i","g","h","t","s"," ","v","i","o","l","a","t","i","o","n">>,  \* "human rights violation"
          <<"g","e","n","o","c","i","d","e">>,  \* "genocide"
          <<"w","a","r"," ","c","r","i","m","e","s">>,  \* "war crimes"
          <<"i","n","s","i","d","e","r"," ","t","r","a","d","i","n","g">>  \* "insider trading"
        >>]
     >>],
    [category |-> <<"F","i","n","a","n","c","i","a","l">>,  \* "Financial"
     levels |-> <<
       [severity |-> <<"l","o","w">>,  \* "low"
        score |-> 2,
        keywords |-> <<
          <<"l","a","t","e"," ","p","a","y","m","e","n","t">>,  \* "late payment"
          <<"s","m","a","l","l"," ","f","i","n","e","s">>,  \* "small fines"
          <<"b","a","n","k"," ","r","e","c","o","n","c","i","l","i","a","t","i","o","n">>,  \* "bank reconciliation"
          <<"r","e","p","o","r","t","i","n","g"," ","e","r","r","o","r">>,  \* "reporting error"
          <<"c","l","e","r","i","c","a","l"," ","e","r","r","o","r">>,  \* "clerical error"
          <<"b","u","d","g","e","t"," ","o","v","e","r","r","u","n">>,  \* "budget overrun"
          <<"l","o","w","-","v","a","l","u","e"," ","t","r","a","n","s","a","c","t","i","o","n">>,  \* "low-value transaction"
          <<"d","e","l","a","y","e","d"," ","i","n","v","o","i","c","e">>,  \* "delayed invoice"
          <<"c","u","r","r","e","n","c","y"," ","r","o","u","n","d","i","n","g">>,  \* "currency rounding"
          <<"o","p","e","r","a","t","i","o","n","a","l"," ","f","e","e">>,  \* "operational fee"
          <<" ","p","e","t","t","y"," ","c","a","s","h">>,  \* " petty cash"
          <<"m","i","n","o","r"," ","a","u","d","i","t"," ","f","i","n","d","i","n","g">>,  \* "minor audit finding"
          <<"t","a","x"," ","f","i","l","i","n","g"," ","d","e","l","a","y">>,  \* "tax filing delay"
          <<"m","i","s","l","a","b","e","l","l","e","d"," ","e","x","p","e","n","s","e">>,  \* "mislabelled expense"
          <<"d","u","p","l","i","c","a","t","e"," ","e","n","t","r","y">>,  \* "duplicate entry"
          <<"s","i","m","p","l","e"," ","v","a","r","i","a","n","c","e">>,  \* "simple variance"
          <<"l","o","w"," ","m","a","t","e","r","i","a","l","i","t","y">>,  \* "low materiality"
          <<"a","c","c","o","u","n","t","i","n","g"," ","c","o","r","r","e","c","t","i","o","n">>,  \* "accounting correction"
          <<"v","e","n","d","o","r"," ","m","i","s","r","e","p","o","r","t">>,  \* "vendor misreport"
          <<"i","n","v","o","i","c","e"," ","m","i","s","m","a","t","c","h">>,  \* "invoice mismatch"
          <<"e","x","p","e","n","s","e"," ","a","p","p","r","o","v","a","l">>  \* "expense approval"
        >>],
       [severity |-> <<"m","e","d","i","u","m">>,  \* "medium"
        score |-> 6,
        keywords |-> <<
          <<"t","a","x"," ","e","v","a","s","i","o","n"," ","s","u","s","p","i","c","i","o","n">>,  \* "tax evasion suspicion"
          <<"A","M","L"," ","a","l","e","r","t">>,  \* "AML alert"
          <<"f","i","n","a","n","c","i","a","l"," ","r","e","p","o","r","t","i","n","g">>,  \* "financial reporting"
          <<"c","a","p","i","t","a","l"," ","a","d","e","q","u","a","c","y">>,  \* "capital adequacy"
          <<"u","n","s","e","c","u","r","e","d"," ","l","o","a","n">>,  \* "unsecured loan"
          <<"m","e","d","i","u","m","-","v","a","l","u","e"," ","f","r","a","u","d">>,  \* "medium-value fraud"
          <<"i","n","t","e","r","n","a","l"," ","a","u","d","i","t"," ","f","a","i","l">>,  \* "internal audit fail"
          <<"S","O","X"," ","n","o","n","-","c","o","m","p","l","i","a","n","c","e">>,  \* "SOX non-compliance"
          <<"c","r","e","d","i","t"," ","r","a","t","i","n","g"," ","i","m","p","a","c","t">>,  \* "credit rating impact"
          <<"h","e","d","g","i","n","g"," ","l","o","s","s">>,  \* "hedging loss"
          <<"c","u","r","r","e","n","c","y"," ","r","i","s","k">>,  \* "currency risk"
          <<"i","n","s","u","r","a","n","c","e"," ","l","a","p","s","e">>,  \* "insurance lapse"
          <<"p","a","y","m","e","n","t"," ","s","y","s","t","e","m"," ","b","r","e","a","c","h">>,  \* "payment system breach"
          <<"m","i","s","r","e","p","r","e","s","e","n","t","a","t","i","o","n">>,  \* "misrepresentation"
          <<"l","o","a","n"," ","c","o","v","e","n","a","n","t"," ","b","r","e","a","c","h">>,  \* "loan covenant breach"
          <<"f","r","a","u","d","u","l","e","n","t"," ","i","n","v","o","i","c","e">>,  \* "fraudulent invoice"
          <<"d","e","f","e","r","r","e","d"," ","r","e","v","e","n","u","e"," ","i","s","s","u","e">>,  \* "deferred revenue issue"
          <<"d","e","r","i","v","a","t","i","v","e","s"," ","m","i","s","s","t","a","t","e","m","e","n","t">>,  \* "derivatives misstatement"
          <<"s","u","s","p","i","c","i","o","u","s"," ","t","r","a","n","s","f","e","r">>,  \* "suspicious transfer"
          <<"f","o","r","e","i","g","n"," ","e","x","c","h","a","n","g","e"," ","l","o","s","s">>  \* "foreign exchange loss"
        >>],
       [severity |-> <<"h","i","g","h">>,  \* "high"
        score |-> 10,
        keywords |-> <<
          <<"m","o","n","e","y"," ","l","a","u","n","d","e","r","i","n","g">>,  \* "money laundering"
          <<"s","e","c","u","r","i","t","i","e","s"," ","f","r","a","u","d">>,  \* "securities fraud"
          <<"e","m","b","e","z","z","l","e","m","e","n","t">>,  \* "embezzlement"
          <<"b","a","n","k","r","u","p","t","c","y">>,  \* "bankruptcy"
          <<"P","o","n","z","i"," ","s","c","h","e","m","e">>,  \* "Ponzi scheme"
          <<"f","i","n","a","n","c","i","a","l"," ","c","r","i","m","e">>,  \* "financial crime"
          <<"t","a","x"," ","f","r","a","u","d">>,  \* "tax fraud"
          <<"i","n","s","i","d","e","r"," ","t","r","a","d","i","n","g">>,  \* "insider trading"
          <<"t","e","r","r","o","r","i","s","t"," ","f","i","n","a","n","c","i","n","g">>,  \* "terrorist financing"
          <<"c","a","p","i","t","a","l"," ","m","a","r","k","e","t"," ","m","a","n","i","p","u","l","a","t","i","o","n">>,  \* "capital market manipulation"
          <<"b","r","i","b","e","r","y"," ","f","u","n","d">>,  \* "bribery fund"
          <<"i","l","l","e","g","a","l"," ","i","n","v","e","s","t","m","e","n","t"," ","s","c","h","e","m","e">>,  \* "illegal investment scheme"
          <<"s","a","n","c","t","i","o","n","s"," ","b","r","e","a","c","h">>,  \* "sanctions breach"
          <<"s","h","a","d","o","w"," ","b","a","n","k","i","n","g">>,  \* "shadow banking"
          <<"l","a","r","g","e","-","s","c","a","l","e"," ","f","r","a","u","d">>,  \* "large-scale fraud"
          <<"r","e","g","u","l","a","t","o","r","y"," ","f","i","n","e">>,  \* "regulatory fine"
          <<"s","t","o","c","k"," ","m","a","n","i","p","u","l","a","t","i","o","n">>,  \* "stock manipulation"
          <<"f","a","l","s","e"," ","a","c","c","o","u","n","t","i","n","g">>,  \* "false accounting"
          <<"l","o","a","n"," ","s","h","a","r","k","i","n","g">>,  \* "loan sharking"
          <<"c","r","y","p","t","o"," ","s","c","a","m">>,  \* "crypto scam"
          <<"b","o","n","d"," ","d","e","f","a","u","l","t">>  \* "bond default"
        >>]
     >>],
    [category |-> <<"O","p","e","r","a","t","i","o","n","a","l">>,  \* "Operational"
     levels |-> <<
       [severity |-> <<"l","o","w">>,  \* "low"
        score |-> 2,
        keywords |-> <<
          <<"d","e","l","a","y","e","d"," ","d","e","l","i","v","e","r","y">>,  \* "delayed delivery"
          <<"s","t","a","f","f"," ","a","b","s","e","n","c","e">>,  \* "staff absence"
          <<"m","a","c","h","i","n","e"," ","d","o","w","n","t","i","m","e">>,  \* "machine downtime"
          <<"w","o","r","k","p","l","a","c","e"," ","s","a","f","e","t","y"," ","n","o","t","e">>,  \* "workplace safety note"
          <<"m","i","n","o","r"," ","I","T"," ","o","u","t","a","g","e">>,  \* "minor IT outage"
          <<"l","o","w","-","v","a","l","u","e"," ","p","r","o","c","u","r","e","m","e","n","t">>,  \* "low-value procurement"
          <<"n","o","n","-","c","r","i","t","i","c","a","l"," ","d","e","f","e","c","t">>,  \* "non-critical defect"
          <<"s","m","a","l","l"," ","p","r","o","c","e","s","s"," ","g","a","p">>,  \* "small process gap"
          <<"c","u","s","t","o","m","e","r"," ","c","o","m","p","l","a","i","n","t">>,  \* "customer complaint"
          <<"s","e","r","v","i","c","e"," ","d","e","l","a","y">>,  \* "service delay"
          <<"s","h","i","f","t"," ","a","b","s","e","n","c","e">>,  \* "shift absence"
          <<"s","u","p","p","l","y"," ","h","i","c","c","u","p">>,  \* "supply hiccup"
          <<"r","e","p","o","r","t","i","n","g"," ","l","a","g">>,  \* "reporting lag"
          <<"m","a","i","n","t","e","n","a","n","c","e"," ","m","i","s","s">>,  \* "maintenance miss"
          <<"l","o","s","t"," ","d","o","c","u","m","e","n","t">>,  \* "lost document"
          <<"e","m","a","i","l"," ","m","i","s","r","o","u","t","i","n","g">>,  \* "email misrouting"
          <<"m","e","e","t","i","n","g"," ","d","e","l","a","y">>,  \* "meeting delay"
          <<"t","r","a","i","n","i","n","g"," ","l","a","p","s","e">>,  \* "training lapse"
          <<"m","a","n","u","a","l"," ","e","r","r","o","r">>,  \* "manual error"
          <<"l","o","w"," ","p","r","i","o","r","i","t","y"," ","b","a","c","k","l","o","g">>  \* "low priority backlog"
        >>],
       [severity |-> <<"m","e","d","i","u","m">>,  \* "medium"
        score |-> 5,
        keywords |-> <<
          <<"d","a","t","a"," ","b","r","e","a","c","h">>,  \* "data breach"
          <<"s","e","r","v","i","c","e"," ","o","u","t","a","g","e">>,  \* "service outage"
          <<"o","p","e","r","a","t","i","o","n","a","l"," ","f","r","a","u","d">>,  \* "operational fraud"
          <<"c","y","b","e","r","s","e","c","u","r","i","t","y"," ","g","a","p">>,  \* "cybersecurity gap"
          <<"v","e","n","d","o","r"," ","f","a","i","l","u","r","e">>,  \* "vendor failure"
          <<"c","o","m","p","l","i","a","n","c","e"," ","g","a","p">>,  \* "compliance gap"
          <<"m","e","d","i","u","m"," ","d","o","w","n","t","i","m","e">>,  \* "medium downtime"
          <<"u","n","t","r","a","i","n","e","d"," ","s","t","a","f","f">>,  \* "untrained staff"
          <<"s","u","p","p","l","y"," ","c","h","a","i","n"," ","r","i","s","k">>,  \* "supply chain risk"
          <<"s","y","s","t","e","m"," ","v","u","l","n","e","r","a","b","i","l","i","t","y">>,  \* "system vulnerability"
          <<"p","o","l","i","c","y"," ","v","i","o","l","a","t","i","o","n">>,  \* "policy violation"
          <<"u","n","a","u","t","h","o","r","i","z","e","d"," ","a","c","c","e","s","s">>,  \* "unauthorized access"
          <<"p","a","y","m","e","n","t"," ","d","e","l","a","y">>,  \* "payment delay"
          <<"f","r","a","u","d"," ","d","e","t","e","c","t","i","o","n"," ","m","i","s","s">>,  \* "fraud detection miss"
          <<"i","n","c","o","m","p","l","e","t","e"," ","a","u","d","i","t"," ","t","r","a","i","l">>,  \* "incomplete audit trail"
          <<"i","n","c","o","r","r","e","c","t"," ","r","e","p","o","r","t","i","n","g">>,  \* "incorrect reporting"
          <<"K","Y","C"," ","f","a","i","l","u","r","e">>,  \* "KYC failure"
          <<"l","i","c","e","n","s","e"," ","l","a","p","s","e">>,  \* "license lapse"
          <<"s","a","f","e","t","y"," ","b","r","e","a","c","h">>,  \* "safety breach"
          <<"m","e","d","i","u","m","-","s","c","a","l","e"," ","d","i","s","r","u","p","t","i","o","n">>  \* "medium-scale disruption"
        >>],
       [severity |-> <<"h","i","g","h">>,  \* "high"
        score |-> 9,
        keywords |-> <<
          <<"r","a","n","s","o","m","w","a","r","e">>,  \* "ransomware"
          <<"s","y","s","t","e","m"," ","h","a","c","k">>,  \* "system hack"
          <<"m","a","j","o","r"," ","d","a","t","a"," ","b","r","e","a","c","h">>,  \* "major data breach"
          <<"i","d","e","n","t","i","t","y"," ","t","h","e","f","t">>,  \* "identity theft"
          <<"c","r","i","t","i","c","a","l"," ","i","n","f","r","a","s","t","r","u","c","t","u","r","e"," ","f","a","i","l","u","r","e">>,  \* "critical infrastructure failure"
          <<"r","e","g","u","l","a","t","o","r","y"," ","s","h","u","t","d","o","w","n">>,  \* "regulatory shutdown"
          <<"l","a","r","g","e","-","s","c","a","l","e"," ","f","r","a","u","d">>,  \* "large-scale fraud"
          <<"s","u","p","p","l","y"," ","c","h","a","i","n"," ","c","o","l","l","a","p","s","e">>,  \* "supply chain collapse"
          <<"f","a","c","t","o","r","y"," ","s","h","u","t","d","o","w","n">>,  \* "factory shutdown"
          <<"n","a","t","i","o","n","-","s","t","a","t","e"," ","a","t","t","a","c","k">>,  \* "nation-state attack"
          <<"m","a","j","o","r"," ","s","e","r","v","i","c","e"," ","o","u","t","a","g","e">>,  \* "major service outage"
          <<"c","y","b","e","r"," ","e","s","p","i","o","n","a","g","e">>,  \* "cyber espionage"
          <<"e","s","p","i","o","n","a","g","e">>,  \* "espionage"
          <<"u","n","a","u","t","h","o","r","i","z","e","d"," ","d","i","s","c","l","o","s","u","r","e">>,  \* "unauthorized disclosure"
          <<"o","p","e","r","a","t","i","o","n","a","l"," ","s","a","b","o","t","a","g","e">>,  \* "operational sabotage"
          <<"e","n","v","i","r","o","n","m","e","n","t","a","l"," ","s","p","i","l","l">>,  \* "environmental spill"
          <<"t","o","x","i","c"," ","r","e","l","e","a","s","e">>,  \* "toxic release"
          <<"i","n","d","u","s","t","r","i","a","l"," ","a","c","c","i","d","e","n","t">>,  \* "industrial accident"
          <<"e","x","p","l","o","s","i","o","n">>,  \* "explosion"
          <<"m","a","s","s"," ","c","a","s","u","a","l","t","y">>  \* "mass casualty"
        >>]
     >>]
  >>

\* the explanation returned for a compliant verdict
NoRiskExplanation ==
  [severity |-> <<"N","o","n","e">>,
   category |-> <<"N","o","n","e">>,
   risk_score |-> 0,
   impact |-> <<"N","o"," ","r","e","g","u","l","a","t","o","r","y"," ",
                "e","x","p","o","s","u","r","e",".">>,
   mitigation |-> <<"N","o"," ","a","c","t","i","o","n"," ",
                    "r","e","q","u","i","r","e","d",".">>]

\* "Review and address compliance gap immediately."
ReviewMitigation ==
  <<"R","e","v","i","e","w"," ","a","n","d"," ","a","d","d","r","e","s","s"," ",
    "c","o","m","p","l","i","a","n","c","e"," ","g","a","p"," ",
    "i","m","m","e","d","i","a","t","e","l","y",".">>

\* the text of the first matched rule alone
matched_text_first_rule_only(v) ==
  IF Len(v.matched_rules) = 0 THEN <<>> ELSE v.matched_rules[1].rule

\* the join taking only the rules the LLM marked relevant
matched_text_relevant_only(v) ==
  LET relevant == SelectSeq(v.matched_rules, LAMBDA r : r.is_relevant)
  IN  Join(<<" ">>, [i \in 1..Len(relevant) |-> relevant[i].rule])

\* " ".join([r["rule"] for r in verifier_result["matched_rules"]])
matched_text(v) ==
  Join(<<" ">>, [i \in 1..Len(v.matched_rules) |-> v.matched_rules[i].rule])

\* the keyword lower-cased, the text searched as it is
AnyKeyword_text_as_is(keywords, text) ==
  \E k \in 1..Len(keywords) : Contains(Lower(keywords[k]), text)

\* any(keyword.lower() in matched_text.lower() for keyword in config["keywords"])
AnyKeyword(keywords, text) ==
  \E k \in 1..Len(keywords) : Contains(Lower(keywords[k]), Lower(text))

\* the dict returned from inside the two loops
RiskExplanation(category, config) ==
  [severity |-> Capitalize(config.severity),
   category |-> category,
   risk_score |-> config.score,
   impact |-> category \o <<" ","r","i","s","k"," ","(">> \o config.severity
              \o <<")"," ","d","e","t","e","c","t","e","d",".">>,
   mitigation |-> ReviewMitigation]

\* the severities scanned from the last (high) to the first (low)
RECURSIVE ScanLevels_high_first(_, _, _, _)
ScanLevels_high_first(category, levels, j, text) ==
  IF j > Len(levels) THEN None
  ELSE LET config == levels[Len(levels) + 1 - j]
       IN  IF AnyKeyword(config.keywords, text)
           THEN RiskExplanation(category, config)
           ELSE ScanLevels_high_first(category, levels, j + 1, text)

\* for severity, config in levels.items(): ...
RECURSIVE ScanLevels(_, _, _, _)
ScanLevels(category, levels, j, text) ==
  IF j > Len(levels) THEN None
  ELSE IF AnyKeyword(levels[j].keywords, text)
       THEN RiskExplanation(category, levels[j])
       ELSE ScanLevels(category, levels, j + 1, text)

\* the scan ending in the no-risk explanation when nothing matched
RECURSIVE ScanCategories_default_no_risk(_, _, _)
ScanCategories_default_no_risk(table, i, text) ==
  IF i > Len(table) THEN NoRiskExplanation
  ELSE LET r == ScanLevels(table[i].category, table[i].levels, 1, text)
       IN IF r # None THEN r ELSE ScanCategories_default_no_risk(table, i + 1, text)

\* for category, levels in RISK_KEYWORDS.items(): ...; return None
RECURSIVE ScanCategories(_, _, _)
ScanCategories(table, i, text) ==
  IF i > Len(table) THEN None
  ELSE LET r == ScanLevels(table[i].category, table[i].levels, 1, text)
       IN IF r # None THEN r ELSE ScanCategories(table, i + 1, text)

\* the keyword scan run before is_compliant is looked at
explain_risk_scan_first(v) ==
  LET r == ScanCategories(RISK_KEYWORDS, 1, matched_text(v))
  IN  IF r # None THEN r
      ELSE IF v.is_compliant THEN NoRiskExplanation ELSE None

\* RiskExplainer.explain_risk
explain_risk(v) ==
  IF v.is_compliant
  THEN NoRiskExplanation
  ELSE ScanCategories(RISK_KEYWORDS, 1, matched_text(v))

\* explain_all keeping only the explanations that are not None
explain_all_dropping_none(verifier_results) ==
  SelectSeq([i \in 1..Len(verifier_results) |-> explain_risk(verifier_results[i])],
            LAMBDA r : r # None)

\* RiskExplainer.explain_all
explain_all(verifier_results) ==
  [i \in 1..Len(verifier_results) |-> explain_risk(verifier_results[i])]

(***************************************************************************)
(* The risk classifier under test: Init draws one verifier result, the     *)
(* action applies explain_risk to it.                                      *)
(***************************************************************************)
\* "data retention policy"
T_data_retention_policy == <<"d","a","t","a"," ","r","e","t","e","n","t","i","o","n"," ","p","o","l","i","c","y">>

\* "without consent"
T_without_consent == <<"w","i","t","h","o","u","t"," ","c","o","n","s","e","n","t">>

\* "GDPR"
T_GDPR == <<"G","D","P","R">>

\* "see gdpr art 5"
T_see_gdpr == <<"s","e","e"," ","g","d","p","r"," ","a","r","t"," ","5">>

\* "money laundering"
T_money_laundering == <<"m","o","n","e","y"," ","l","a","u","n","d","e","r","i","n","g">>

\* "late payment fee"
T_late_payment_fee == <<"l","a","t","e"," ","p","a","y","m","e","n","t"," ","f","e","e">>

\* "embezzlement"
T_embezzlement == <<"e","m","b","e","z","z","l","e","m","e","n","t">>

\* "ransomware"
T_ransomware == <<"r","a","n","s","o","m","w","a","r","e">>

\* "data"
T_data == <<"d","a","t","a">>

\* "retention"
T_retention == <<"r","e","t","e","n","t","i","o","n">>

\* "hipaa rules"
T_hipaa == <<"h","i","p","a","a"," ","r","u","l","e","s">>

\* "Data Breach"
T_Data_Breach == <<"D","a","t","a"," ","B","r","e","a","c","h">>

RuleTexts ==
  {T_data_retention_policy,
   T_without_consent,
   T_GDPR,
   T_see_gdpr,
   T_money_laundering,
   T_late_payment_fee,
   T_embezzlement,
   T_ransomware,
   T_data,
   T_retention,
   T_hipaa,
   T_Data_Breach}

\* matched_rules lists of at most MaxRules entries {"rule": text}
RECURSIVE SeqsUpTo(_, _)
SeqsUpTo(S, n) ==
  IF n = 0 THEN {<<>>}
  ELSE LET shorter == SeqsUpTo(S, n - 1)
       IN shorter \cup {Append(s, x) : s \in {t \in shorter : Len(t) = n - 1}, x \in S}

MatchedRule(text) == [rule |-> text]

Verdicts ==
  [is_compliant : BOOLEAN,
   matched_rules : SeqsUpTo({MatchedRule(t) : t \in RuleTexts}, MaxRules)]

RiskIdle ==
  /\ verifier_result = NotCalled
  /\ risk_result = NotCalled
  /\ risk_pc = "idle"

AgentIdle ==
  /\ agent_pc = "idle"
  /\ llm_client = "unset"
  /\ retriever = None
  /\ clauses = <<>>
  /\ relevant_rules = <<>>
  /\ verification_results = <<>>
  /\ returned = None
  /\ raised = None
  /\ llm_calls = <<>>
  /\ fault_met = "none"
  /\ es_index_exists = FALSE
  /\ es_docs = 0

StatsIdle ==
  /\ compliance_results = None
  /\ compliance_stats = None
  /\ stats_pc = "idle"
  /\ upload_clauses = None
  /\ analysis_data = None

\* the session ids callers use; "default" is the default of chat()
SessionIds == {"default", "s1"}

\* self.conversation_history = {}
EmptyHistory == [s \in SessionIds |-> None]

\* a session id no chat() call was made on
IdleCall ==
  [pc |-> "idle", user_message |-> <<>>, document_context |-> None, intent |-> "",
   retrieved_regulations |-> <<>>, response |-> None, failed |-> {}]

ChatIdle ==
  /\ llm_verifier = "unset"
  /\ chat_retriever = FALSE
  /\ conversation_history = EmptyHistory
  /\ chat_sessions = EmptyHistory
  /\ chat_call = [s \in SessionIds |-> IdleCall]
  /\ clock = <<>>
  /\ chat_turns = [s \in SessionIds |-> 0]
  /\ requests_served = [s \in SessionIds |-> 0]

IntentIdle ==
  /\ intent_message = <<>>
  /\ intent_result = ""

ParseIdle ==
  /\ raw = None
  /\ parse_result = NotCalled
  /\ parse_pc = "idle"

RiskInit ==
  /\ verifier_result \in Verdicts
  /\ risk_result = NotCalled
  /\ risk_pc = "input"

\* one call risk_explainer.explain_risk(verifier_result)
ExplainRisk ==
  /\ risk_pc = "input"
  /\ risk_result' = explain_risk(verifier_result)
  /\ risk_pc' = "returned"
  /\ UNCHANGED verifier_result
  /\ UNCHANGED <<agentVars, esVars, statsVars, parseVars, chatVars, intentVars>>

InitRisk == RiskInit /\ AgentIdle /\ StatsIdle /\ ParseIdle /\ ChatIdle /\ IntentIdle

NextRisk == ExplainRisk

SpecRisk == InitRisk /\ [][NextRisk]_vars

(***************************************************************************)
(* The risk classifier on verdicts as the LLM returns them, with every     *)
(* field of the response schema, and called twice on the same verdict.     *)
(***************************************************************************)
\* the fields of a matched rule besides its text; each differs from the first
\* in one field
RuleFields ==
  {[metadata |-> <<>>, is_relevant |-> TRUE, reason |-> "applies"],
   [metadata |-> [doc_id |-> "D1"], is_relevant |-> TRUE, reason |-> "applies"],
   [metadata |-> <<>>, is_relevant |-> FALSE, reason |-> "applies"],
   [metadata |-> <<>>, is_relevant |-> TRUE, reason |-> "unrelated"]}

\* the fields of a verdict besides is_compliant and matched_rules
VerdictFields ==
  {[clause |-> "C-1", final_reason |-> "breach", Section |-> "Banking"],
   [clause |-> "C-2", final_reason |-> "breach", Section |-> "Banking"],
   [clause |-> "C-1", final_reason |-> "fine", Section |-> "Banking"],
   [clause |-> "C-1", final_reason |-> "breach", Section |-> "Wealth"]}

FullRule(text, f) ==
  [rule |-> text, metadata |-> f.metadata, is_relevant |-> f.is_relevant,
   reason |-> f.reason]

FullVerdict(is_compliant, rules, f) ==
  [is_compliant |-> is_compliant, matched_rules |-> rules, clause |-> f.clause,
   final_reason |-> f.final_reason, Section |-> f.Section]

FullVerdicts ==
  {FullVerdict(c, rules, f) :
     c \in BOOLEAN,
     rules \in SeqsUpTo({FullRule(t, g) : t \in {T_GDPR, T_without_consent},
                                          g \in RuleFields}, MaxRules),
     f \in VerdictFields}

RiskFieldsInit ==
  /\ verifier_result \in FullVerdicts
  /\ risk_result = NotCalled
  /\ risk_pc = "input"

\* explain_risk(verifier_result), and the same call once more
ExplainRiskAgain ==
  /\ risk_pc \in {"input", "returned"}
  /\ risk_result' = explain_risk(verifier_result)
  /\ risk_pc' = IF risk_pc = "input" THEN "returned" ELSE "repeated"
  /\ UNCHANGED verifier_result
  /\ UNCHANGED <<agentVars, esVars, statsVars, parseVars, chatVars, intentVars>>

InitRiskFields ==
  RiskFieldsInit /\ AgentIdle /\ StatsIdle /\ ParseIdle /\ ChatIdle /\ IntentIdle

NextRiskFields == ExplainRiskAgain

SpecRiskFields == InitRiskFields /\ [][NextRiskFields]_vars

(***************************************************************************)
(* Claims about the risk classifier.                                       *)
(***************************************************************************)
\* the lower-cased blob the keyword scan of the last call looked at
Blob == Lower(matched_text(verifier_result))

NonCompliantReturned ==
  /\ risk_pc = "returned"
  /\ ~verifier_result.is_compliant

\* pair (c, s) of the keyword table has a keyword occurring in the blob
Hit(c, s) ==
  \E k \in 1..Len(RISK_KEYWORDS[c].levels[s].keywords) :
     Contains(Lower(RISK_KEYWORDS[c].levels[s].keywords[k]), Blob)

\* pair (c1, s1) is scanned before pair (c2, s2): categories outer, severities inner
Before(c1, s1, c2, s2) == c1 < c2 \/ (c1 = c2 /\ s1 < s2)

CategoryOrder ==
  << <<"L","e","g","a","l">>,
     <<"F","i","n","a","n","c","i","a","l">>,
     <<"O","p","e","r","a","t","i","o","n","a","l">> >>

SeverityOrder ==
  << <<"L","o","w">>, <<"M","e","d","i","u","m">>, <<"H","i","g","h">> >>

BaseScores == << <<3, 6, 9>>, <<2, 6, 10>>, <<2, 5, 9>> >>

Classified(r, c, s) ==
  /\ r # None
  /\ r.category = CategoryOrder[c]
  /\ r.severity = SeverityOrder[s]
  /\ r.risk_score = BaseScores[c][s]

\* C3: for a verdict with is_compliant true, explain_risk returns exactly the
\* no-risk explanation (severity "None", category "None", risk_score 0, impact
\* "No regulatory exposure.", mitigation "No action required."), whatever the
\* matched rules contain.
C3_CompliantIsNoRisk ==
  (risk_pc = "returned" /\ verifier_result.is_compliant) =>
     risk_result =
       [severity |-> <<"N","o","n","e">>,
        category |-> <<"N","o","n","e">>,
        risk_score |-> 0,
        impact |-> <<"N","o"," ","r","e","g","u","l","a","t","o","r","y"," ","e","x","p","o","s","u","r","e",".">>,
        mitigation |-> <<"N","o"," ","a","c","t","i","o","n"," ","r","e","q","u","i","r","e","d",".">>]

\* a compliant verdict whose matched rules do contain keywords has been explained
C3_Witness ==
  /\ risk_pc = "returned"
  /\ verifier_result.is_compliant
  /\ Hit(1, 3)
  /\ Hit(2, 1)

\* C4: for a non-compliant verdict the result is the first pair, categories outer
\* (Legal, Financial, Operational) and severities inner (low, medium, high), that
\* has a keyword occurring in the joined matched-rule text, with the severity
\* capitalized and the pair's base score; "data retention" with "consent" and no
\* other keyword gives Legal / Low / 3.
C4_FirstPairWins ==
  NonCompliantReturned =>
     /\ \A c \in 1..3, s \in 1..3 :
          ( /\ Hit(c, s)
            /\ \A c0 \in 1..3, s0 \in 1..3 : Before(c0, s0, c, s) => ~Hit(c0, s0) )
          => /\ Classified(risk_result, c, s)
             /\ risk_result.impact =
                  CategoryOrder[c] \o <<" ","r","i","s","k"," ","(">>
                  \o Lower(SeverityOrder[s])
                  \o <<")"," ","d","e","t","e","c","t","e","d",".">>
     /\ ( /\ Contains(<<"d","a","t","a"," ","r","e","t","e","n","t","i","o","n">>, Blob)
          /\ Contains(<<"c","o","n","s","e","n","t">>, Blob)
          /\ \A c \in 1..3, s \in 1..3 : (c # 1 \/ s # 1) => ~Hit(c, s) )
        => Classified(risk_result, 1, 1)

\* the non-compliant verdict with the rules "data retention policy" and "without
\* consent" has been explained
C4_Witness ==
  /\ NonCompliantReturned
  /\ verifier_result.matched_rules =
       <<MatchedRule(T_data_retention_policy), MatchedRule(T_without_consent)>>
  /\ Classified(risk_result, 1, 1)

\* C5: when the matched rule text of a non-compliant verdict contains "money
\* laundering", the result is Financial / High / 10 whatever else the text holds.
C5_MoneyLaunderingIsFinancialHigh ==
  ( /\ NonCompliantReturned
    /\ Contains(<<"m","o","n","e","y"," ","l","a","u","n","d","e","r","i","n","g">>, Blob) )
  => Classified(risk_result, 2, 3)

\* the verdict with every matched rule text put through `recase`
Recased(v, recase(_)) ==
  [v EXCEPT !.matched_rules =
     [i \in 1..Len(v.matched_rules) |-> MatchedRule(recase(v.matched_rules[i].rule))]]

\* C6: keyword matching ignores case: a blob containing "GDPR" and one containing
\* "gdpr" (and no Legal low or medium keyword) both classify as Legal / High / 9,
\* which is also the result for the same rules written all in lower case and all
\* in upper case.
C6_CaseInsensitive ==
  NonCompliantReturned =>
     /\ risk_result = explain_risk(Recased(verifier_result, Lower))
     /\ risk_result = explain_risk(Recased(verifier_result, Upper))
     /\ ( /\ \/ Contains(<<"G","D","P","R">>, matched_text(verifier_result))
             \/ Contains(<<"g","d","p","r">>, matched_text(verifier_result))
          /\ ~Hit(1, 1)
          /\ ~Hit(1, 2) )
        => /\ Classified(risk_result, 1, 3)
           /\ risk_result.risk_score = 9

\* an upper-case "GDPR" rule text has been classified
C6_Witness ==
  /\ NonCompliantReturned
  /\ verifier_result.matched_rules = <<MatchedRule(T_GDPR)>>
  /\ risk_result # None

\* C7: a non-compliant verdict whose text holds no keyword gets None, and no
\* non-compliant verdict ever gets the no-risk explanation.
C7_UnmatchedIsNone ==
  NonCompliantReturned =>
     /\ (\A c \in 1..3, s \in 1..3 : ~Hit(c, s)) => risk_result = None
     /\ risk_result # None =>
          /\ risk_result.severity # <<"N","o","n","e">>
          /\ risk_result.risk_score # 0

\* a non-compliant verdict with rule text but no keyword has been explained
C7_Witness ==
  /\ NonCompliantReturned
  /\ verifier_result.matched_rules = <<MatchedRule(T_without_consent)>>
  /\ risk_result = None

\* the permutations of 1..n
Perms(n) == {f \in [1..n -> 1..n] : \A i, j \in 1..n : f[i] = f[j] => i = j}

\* the verdict with its matched rules in the order perm
Permuted(v, perm) ==
  [v EXCEPT !.matched_rules = [i \in 1..Len(v.matched_rules) |-> v.matched_rules[perm[i]]]]

\* some keyword of the table occurs in the blob of v and in no single matched
\* rule's text: the concatenation formed it across rule boundaries
KeywordAcrossRules(v) ==
  \E c \in 1..3, s \in 1..3 :
     \E k \in 1..Len(RISK_KEYWORDS[c].levels[s].keywords) :
        LET keyword == Lower(RISK_KEYWORDS[c].levels[s].keywords[k])
        IN  /\ Contains(keyword, Lower(matched_text(v)))
            /\ \A i \in 1..Len(v.matched_rules) :
                 ~Contains(keyword, Lower(v.matched_rules[i].rule))

\* C29: for a non-compliant verdict, explain_risk gives the same result for
\* every permutation of the matched_rules list: a keyword counts only when it
\* occurs inside a single matched rule's text, never when it is formed across
\* the boundary of two adjacent rules by the concatenation.
C29_PermutationInvariant ==
  NonCompliantReturned =>
     /\ \A perm \in Perms(Len(verifier_result.matched_rules)) :
          risk_result = explain_risk(Permuted(verifier_result, perm))
     /\ risk_result # None =>
          \E c \in 1..3, s \in 1..3 :
             /\ Classified(risk_result, c, s)
             /\ \E i \in 1..Len(verifier_result.matched_rules) :
                  AnyKeyword(RISK_KEYWORDS[c].levels[s].keywords,
                             verifier_result.matched_rules[i].rule)

\* C29 as amended: for a non-compliant verdict, explain_risk gives the same
\* result for every permutation of the matched_rules list in which, as in the
\* given order, no keyword is formed across rule boundaries by the
\* concatenation; a keyword formed that way counts like any other.
C29_PermutationInvariantWithinRules ==
  NonCompliantReturned =>
     \A perm \in Perms(Len(verifier_result.matched_rules)) :
        \/ risk_result = explain_risk(Permuted(verifier_result, perm))
        \/ KeywordAcrossRules(verifier_result)
        \/ KeywordAcrossRules(Permuted(verifier_result, perm))

\* two rules with keywords of different pairs have been classified: either
\* order gives Legal / High
C29_Witness ==
  /\ NonCompliantReturned
  /\ verifier_result.matched_rules =
       <<MatchedRule(T_late_payment_fee), MatchedRule(T_GDPR)>>
  /\ ~KeywordAcrossRules(verifier_result)
  /\ Hit(2, 1) \/ Hit(2, 2) \/ Hit(2, 3)
  /\ Classified(risk_result, 1, 3)

\* the verdict with the same is_compliant and the same rule texts, every other
\* field set to one fixed value
Essence(v) ==
  FullVerdict(v.is_compliant,
              [i \in 1..Len(v.matched_rules) |->
                 FullRule(v.matched_rules[i].rule,
                          [metadata |-> <<>>, is_relevant |-> TRUE, reason |-> "applies"])],
              [clause |-> "C-1", final_reason |-> "breach", Section |-> "Banking"])

\* C24: explain_risk is a function of is_compliant and the rule texts of
\* matched_rules only: every verdict gets the result of the verdict that agrees
\* with it on is_compliant and on the sequence of rule texts and has fixed
\* clause, metadata, is_relevant, reason, final_reason and Section fields (so any
\* two verdicts agreeing on those two get the same result), and a repeated call
\* gives that result again.
C24_DependsOnComplianceAndRuleTextsOnly ==
  risk_pc \in {"returned", "repeated"} =>
     risk_result = explain_risk(Essence(verifier_result))

\* a non-compliant verdict whose only keyword-bearing rule is marked irrelevant,
\* with other fields than the fixed ones, was classified twice
C24_Witness ==
  /\ risk_pc = "repeated"
  /\ ~verifier_result.is_compliant
  /\ Len(verifier_result.matched_rules) = 2
  /\ verifier_result.matched_rules[1].rule = T_GDPR
  /\ ~verifier_result.matched_rules[1].is_relevant
  /\ verifier_result.matched_rules[2].rule = T_without_consent
  /\ verifier_result.Section = "Wealth"
  /\ verifier_result # Essence(verifier_result)
  /\ risk_result # None

(***************************************************************************)
(* regulation_retriever.py: RegulationRetriever.  The search backend, the  *)
(* embedding model and the files are outside the program: each call sees   *)
(* at most one fault of theirs, because every fault ends the call.         *)
(***************************************************************************)
\* default of the parameter top_k
top_k == 5

\* "sebi_compliance_index"
IndexName == "sebi_compliance_index"

\* the faults a call can meet, in the order the code reaches them
Faults ==
  {"none", "metadata", "embedding_model", "no_api_key", "es_client", "ping",
   "exists", "create", "faiss", "index_doc", "refresh", "encode", "search"}

\* regulation texts of the corpus, cyclically
CorpusTexts ==
  <<T_GDPR, T_data_retention_policy, T_without_consent, T_money_laundering>>

\* metadata.pkl: one record per regulation chunk
Corpus ==
  [i \in 1..CorpusSize |->
     [text |-> CorpusTexts[((i - 1) % Len(CorpusTexts)) + 1],
      doc_id |-> i, clause_id |-> i, chunk_id |-> i]]

\* RegulationRetriever.__init__
NewRetriever ==
  [model_name |-> "nlpaueb/legal-bert-base-uncased",
   metadata |-> None, embedding_model |-> None, es |-> None, index |-> None]

\* RegulationRetriever._get_es_index under `fault`, the k-th es.index call being
\* the one that fails when fault = "index_doc".  Gives the value returned, the
\* retriever's fields and the backend's index afterwards.
_get_es_index(self, fault, k, exists, docs) ==
  LET s1 == IF self.metadata = None THEN [self EXCEPT !.metadata = Some(Corpus)] ELSE self
      s2 == IF s1.embedding_model = None
            THEN [s1 EXCEPT !.embedding_model = Some(self.model_name)] ELSE s1
      s3 == [s2 EXCEPT !.es = Some("Elasticsearch")]
      s4 == [s3 EXCEPT !.index = Some(IndexName)]
      n == Len(s4.metadata.some)
      Fail(s, e, d) == [ok |-> FALSE, self |-> s, exists |-> e, docs |-> d, met |-> fault]
      Pass(s, e, d) == [ok |-> TRUE, self |-> s, exists |-> e, docs |-> d, met |-> "none"]
  IN  IF self.metadata = None /\ fault = "metadata" THEN Fail(self, exists, docs)
      ELSE IF s1.embedding_model = None /\ fault = "embedding_model"
           THEN Fail(s1, exists, docs)
      ELSE IF fault \in {"no_api_key", "es_client"} THEN Fail(s2, exists, docs)
      ELSE IF fault = "ping" THEN Fail(s3, exists, docs)
      ELSE IF fault = "exists" THEN Fail(s4, exists, docs)
      ELSE IF exists THEN Pass(s4, exists, docs)
      ELSE IF fault = "create" THEN Fail(s4, FALSE, docs)
      ELSE IF fault = "faiss" THEN Fail(s4, TRUE, 0)
      ELSE IF fault = "index_doc" /\ k <= n THEN Fail(s4, TRUE, k - 1)
      ELSE IF fault = "refresh" THEN Fail(s4, TRUE, n)
      ELSE Pass(s4, TRUE, n)

\* "Retrieval error: Could not connect to Elasticsearch"
CouldNotConnect ==
  <<
    "R","e","t","r","i","e","v","a","l"," ","e","r","r","o","r",":"," ","C","o","u","l",
    "d"," ","n","o","t"," ","c","o","n","n","e","c","t"," ","t","o"," ","E","l","a","s",
    "t","i","c","s","e","a","r","c","h" >>

\* "Retrieval error: "
RetrievalErrorPrefix == <<"R","e","t","r","i","e","v","a","l"," ","e","r","r","o","r",":"," ">>

\* str(e) of the exception the try block of retrieve_similar_rules caught
ErrorText(kind) ==
  IF kind = "encode" THEN <<"t","o","k","e","n","i","z","e","r"," ","f","a","i","l","e","d">>
  ELSE IF kind = "search" THEN <<"C","o","n","n","e","c","t","i","o","n"," ","t","i","m","e","d"," ","o","u","t">>
  ELSE <<"'","t","e","x","t","_","e","n","'">>

\* one placeholder for the whole batch instead of one per clause
DummyResults_single(cls, rule_text) ==
  IF Len(cls) = 0 THEN <<>>
  ELSE <<[original_clause |-> cls[1],
          matches |-> <<[rule_text |-> rule_text, metadata |-> <<>>]>>]>>

\* the list both degraded-mode branches build
DummyResults(cls, rule_text) ==
  [i \in 1..Len(cls) |->
     [original_clause |-> cls[i],
      matches |-> <<[rule_text |-> rule_text, metadata |-> <<>>]>>]]

Min(a, b) == IF a <= b THEN a ELSE b

\* es.search: the backend ranks the docs it holds; the ranking is the backend's
\* own, here a rotation of the index that depends on the query text
es_search(docs, query_text, size) ==
  [p \in 1..Min(size, docs) |->
     [_source |-> Corpus[((p - 1 + Len(query_text)) % docs) + 1],
      _score |-> docs + 1 - p]]

\* the matches built from one response
Matches(hits) ==
  [p \in 1..Len(hits) |->
     [rule_text |-> hits[p]._source.text,
      metadata |-> [doc_id |-> hits[p]._source.doc_id,
                    clause_id |-> hits[p]._source.clause_id,
                    chunk_id |-> hits[p]._source.chunk_id,
                    score |-> hits[p]._score]]]

\* RegulationRetriever.retrieve_similar_rules under `fault`.  `raises` is the
\* exception that leaves the call, None when it returns `results`.
retrieve_similar_rules(self, cls, fault, k, exists, docs) ==
  LET g == _get_es_index(self, fault, k, exists, docs)
      Out(res, met) ==
        [raises |-> None, results |-> res, self |-> g.self,
         exists |-> g.exists, docs |-> g.docs, met |-> met]
  IN  IF ~g.ok THEN Out(DummyResults(cls, CouldNotConnect), g.met)
      ELSE IF \E i \in 1..Len(cls) : "text_en" \notin DOMAIN cls[i]
           THEN Out(DummyResults(cls, RetrievalErrorPrefix \o ErrorText("KeyError")),
                    "KeyError")
      ELSE IF fault = "encode" \/ (fault = "search" /\ Len(cls) > 0)
           THEN Out(DummyResults(cls, RetrievalErrorPrefix \o ErrorText(fault)), fault)
      ELSE Out([i \in 1..Len(cls) |->
                  [original_clause |-> cls[i],
                   matches |-> Matches(es_search(g.docs, cls[i].text_en, top_k))]],
               "none")

(***************************************************************************)
(* llm_verifier.py: LLMVerifier.                                           *)
(***************************************************************************)
\* the identifiers examine_clause dispatches on
SupportedClients == {"openai", "gemini", "mistral", "claude"}

\* ValueError(f"Unsupported provider: {self.llm_client}")
UnsupportedProvider == Exception("ValueError: Unsupported provider")

\* `for rule, metadata in clause_obj["matches"]`: each match is a dict, and
\* unpacking a dict unpacks its keys, in insertion order
UnpackMatch(match) ==
  [rule |-> <<"r","u","l","e","_","t","e","x","t">>, metadata |-> <<"m","e","t","a","d","a","t","a">>]

candidate_rules(clause_obj) ==
  [p \in 1..Len(clause_obj.matches) |-> UnpackMatch(clause_obj.matches[p])]

\* what the user prompt carries
user_prompt(clause_obj) ==
  [clause |-> clause_obj.original_clause,
   candidate_rules |-> candidate_rules(clause_obj)]

\* a variant that sends an unrecognized identifier to the default provider
examine_clause_default_provider(client, clause_obj, reply) ==
  [called |-> TRUE,
   request |-> [provider |-> IF client \in SupportedClients THEN client ELSE "gemini",
                user_prompt |-> user_prompt(clause_obj)],
   raises |-> reply.raises,
   value |-> reply.value]

\* LLMVerifier.examine_clause; `reply` is what the provider function does once
\* called: it returns a parsed object or raises
examine_clause(client, clause_obj, reply) ==
  IF client \in SupportedClients
  THEN [called |-> TRUE,
        request |-> [provider |-> client, user_prompt |-> user_prompt(clause_obj)],
        raises |-> reply.raises,
        value |-> reply.value]
  ELSE [called |-> FALSE,
        request |-> None,
        raises |-> UnsupportedProvider,
        value |-> None]

(***************************************************************************)
(* compliance_agent.py: ComplianceAgent, driven the way run_backend and    *)
(* analyze_document_compliance drive it.                                   *)
(***************************************************************************)
\* identifiers an agent is constructed with: the default, another one the
\* verifier knows, and one it does not know
LLMClients == {"gemini", "claude", "llama"}

\* "Company shall retain customer data"
T_clause_retain == <<"C","o","m","p","a","n","y"," ","s","h","a","l","l"," ","r","e","t","a","i","n"," ","c","u","s","t","o","m","e","r"," ","d","a","t","a">>

\* "Fees are due monthly"
T_clause_fees == <<"F","e","e","s"," ","a","r","e"," ","d","u","e"," ","m","o","n","t","h","l","y">>

\* clauses as the summarizer emits them; the last one lacks "text_en"
ClauseUniverse ==
  {[clause_id |-> "C-1", text_en |-> T_clause_retain],
   [clause_id |-> "C-2", text_en |-> T_clause_fees],
   [clause_id |-> "C-3"]}

\* the clause lists of one document: clause ids are unique within a document
ClauseLists ==
  {cls \in SeqsUpTo(ClauseUniverse, MaxClauses) :
     \A a, b \in 1..Len(cls) : a # b => cls[a] # cls[b]}

\* what a provider function does once called: return the parsed model output,
\* or raise (the endpoint failed, or the output was not JSON)
LLMReplies ==
  {[raises |-> None, value |-> [is_compliant |-> TRUE, matched_rules |-> <<>>]],
   [raises |-> None,
    value |-> [is_compliant |-> FALSE, matched_rules |-> <<MatchedRule(T_GDPR)>>]],
   [raises |-> None,
    value |-> [is_compliant |-> FALSE,
               matched_rules |-> <<MatchedRule(T_without_consent)>>]],
   [raises |-> None, value |-> [final_reason |-> "n/a"]],
   [raises |-> Exception("ProviderError"), value |-> None],
   [raises |-> Exception("JSONDecodeError"), value |-> None]}

\* explain_risk raises KeyError on a result without the keys it reads
explain_risk_raises(v) ==
  \/ "is_compliant" \notin DOMAIN v
  \/ /\ ~v.is_compliant
     /\ "matched_rules" \notin DOMAIN v

AgentInit ==
  /\ agent_pc = "unconstructed"
  /\ llm_client = "unset"
  /\ retriever = None
  /\ clauses = <<>>
  /\ relevant_rules = <<>>
  /\ verification_results = <<>>
  /\ returned = None
  /\ raised = None
  /\ llm_calls = <<>>
  /\ fault_met = "none"
  /\ \/ es_index_exists = FALSE /\ es_docs = 0
     \/ es_index_exists = TRUE /\ es_docs = CorpusSize

\* ComplianceAgent.__init__(llm_client)
ConstructAgent ==
  /\ agent_pc = "unconstructed"
  /\ \E client \in LLMClients : llm_client' = client
  /\ retriever' = NewRetriever
  /\ agent_pc' = "ready"
  /\ UNCHANGED <<clauses, relevant_rules, verification_results, returned, raised,
                 llm_calls, fault_met>>
  /\ UNCHANGED <<riskVars, esVars, statsVars, parseVars, chatVars, intentVars>>

\* ensure_compliance(clauses) is entered
CallEnsureCompliance ==
  /\ agent_pc = "ready"
  /\ \E cls \in ClauseLists : clauses' = cls
  /\ agent_pc' = "retrieving"
  /\ UNCHANGED <<llm_client, retriever, relevant_rules, verification_results,
                 returned, raised, llm_calls, fault_met>>
  /\ UNCHANGED <<riskVars, esVars, statsVars, parseVars, chatVars, intentVars>>

\* relevant_rules = self.regulation_retriever.retrieve_similar_rules(clauses)
Retrieve ==
  /\ agent_pc = "retrieving"
  /\ \E fault \in Faults, k \in 1..CorpusSize :
       LET out == retrieve_similar_rules(retriever, clauses, fault, k,
                                         es_index_exists, es_docs)
       IN  /\ retriever' = out.self
           /\ es_index_exists' = out.exists
           /\ es_docs' = out.docs
           /\ fault_met' = out.met
           /\ IF out.raises # None
              THEN /\ raised' = out.raises
                   /\ agent_pc' = "raised"
                   /\ UNCHANGED relevant_rules
              ELSE /\ relevant_rules' = out.results
                   /\ agent_pc' = IF Len(out.results) = 0 THEN "explaining" ELSE "verifying"
                   /\ UNCHANGED raised
  /\ UNCHANGED <<llm_client, clauses, verification_results, returned, llm_calls>>
  /\ UNCHANGED <<riskVars, statsVars, parseVars, chatVars, intentVars>>

\* one turn of the loop of verify_clauses: examine_clause on the next clause object
VerifyClause ==
  /\ agent_pc = "verifying"
  /\ \E reply \in LLMReplies :
       LET i == Len(verification_results) + 1
           r == examine_clause(llm_client, relevant_rules[i], reply)
       IN  /\ llm_calls' = IF r.called
                           THEN Append(llm_calls, [request |-> r.request, reply |-> reply])
                           ELSE llm_calls
           /\ IF r.raises # None
              THEN /\ raised' = r.raises
                   /\ verification_results' = <<>>
                   /\ agent_pc' = "raised"
              ELSE /\ verification_results' = Append(verification_results, r.value)
                   /\ agent_pc' = IF i = Len(relevant_rules) THEN "explaining" ELSE "verifying"
                   /\ UNCHANGED raised
  /\ UNCHANGED <<llm_client, retriever, clauses, relevant_rules, returned, fault_met>>
  /\ UNCHANGED <<riskVars, esVars, statsVars, parseVars, chatVars, intentVars>>

\* risk_explanations = self.risk_explainer.explain_all(verification_results); return
ExplainAll ==
  /\ agent_pc = "explaining"
  /\ IF \E i \in 1..Len(verification_results) : explain_risk_raises(verification_results[i])
     THEN /\ raised' = Exception("KeyError")
          /\ agent_pc' = "raised"
          /\ UNCHANGED returned
     ELSE /\ returned' = [verification_results |-> verification_results,
                          risk_explanations |-> explain_all(verification_results)]
          /\ agent_pc' = "done"
          /\ UNCHANGED raised
  /\ UNCHANGED <<llm_client, retriever, clauses, relevant_rules, verification_results,
                 llm_calls, fault_met>>
  /\ UNCHANGED <<riskVars, esVars, statsVars, parseVars, chatVars, intentVars>>

\* the caller is done with the agent; the next document constructs a new one
DropAgent ==
  /\ agent_pc \in {"done", "raised"}
  /\ agent_pc' = "unconstructed"
  /\ llm_client' = "unset"
  /\ retriever' = None
  /\ clauses' = <<>>
  /\ relevant_rules' = <<>>
  /\ verification_results' = <<>>
  /\ returned' = None
  /\ raised' = None
  /\ llm_calls' = <<>>
  /\ fault_met' = "none"
  /\ UNCHANGED <<riskVars, esVars, statsVars, parseVars, chatVars, intentVars>>

Init == AgentInit /\ RiskIdle /\ StatsIdle /\ ParseIdle /\ ChatIdle /\ IntentIdle

Next ==
  \/ ConstructAgent
  \/ CallEnsureCompliance
  \/ Retrieve
  \/ VerifyClause
  \/ ExplainAll
  \/ DropAgent

Spec == Init /\ [][Next]_vars

(***************************************************************************)
(* Claims about ensure_compliance and the retriever.                       *)
(***************************************************************************)
\* retrieve_similar_rules of the current call is over
Retrieved == agent_pc \in {"verifying", "explaining", "done", "raised"}

\* C1: a completed ensure_compliance call returns verification_results and
\* risk_explanations of exactly the length of the input list; entry i of the
\* first is the reply to the request made for input clause i, and entry i of the
\* second is the risk slot of that verdict.
C1_ResultsAlignWithClauses ==
  agent_pc = "done" =>
     /\ Len(returned.verification_results) = Len(clauses)
     /\ Len(returned.risk_explanations) = Len(clauses)
     /\ Len(llm_calls) = Len(clauses)
     /\ \A i \in 1..Len(clauses) :
          /\ llm_calls[i].request.user_prompt.clause = clauses[i]
          /\ returned.verification_results[i] = llm_calls[i].reply.value
          /\ i <= Len(returned.risk_explanations)
          /\ returned.risk_explanations[i] = explain_risk(returned.verification_results[i])

\* a call on at least two clauses has completed with two different verdicts, one
\* of them unclassified
C1_Witness ==
  /\ agent_pc = "done"
  /\ Len(clauses) >= 2
  /\ returned.verification_results[1] # returned.verification_results[2]
  /\ returned.risk_explanations[1] = None
  /\ returned.risk_explanations[2] # None

\* an LLM call of the current ensure_compliance call failed
SomeVerificationFailed ==
  \E c \in 1..Len(llm_calls) :
     llm_calls[c].reply.raises \in {Exception("ProviderError"), Exception("JSONDecodeError")}

\* C2: a verification failure on a single clause does not abort the batch: the
\* call still returns N verdicts and N risk slots.
C2_FailureDoesNotAbortBatch ==
  (agent_pc \in {"done", "raised"} /\ SomeVerificationFailed) =>
     /\ agent_pc = "done"
     /\ returned # None
     /\ Len(returned.verification_results) = Len(clauses)
     /\ Len(returned.risk_explanations) = Len(clauses)

\* C8: when the retrieval met a fault (metadata, embedding model, connection,
\* index bootstrap, encode or search), retrieve_similar_rules did not raise and
\* returned one entry per input clause, in input order, whose first match's
\* rule_text starts with "Retrieval error".
C8_DegradedRetrieval ==
  (Retrieved /\ fault_met # "none") =>
     /\ Len(relevant_rules) = Len(clauses)
     /\ \A i \in 1..Len(clauses) :
          /\ relevant_rules[i].original_clause = clauses[i]
          /\ Len(relevant_rules[i].matches) >= 1
          /\ StartsWith(relevant_rules[i].matches[1].rule_text,
                        <<"R","e","t","r","i","e","v","a","l"," ","e","r","r","o","r">>)

\* the search failed after a successful connect, on a list of at least two clauses
C8_Witness ==
  /\ agent_pc = "verifying"
  /\ fault_met = "search"
  /\ Len(clauses) >= 2
  /\ Len(relevant_rules) = Len(clauses)

\* C10: an agent constructed with an unrecognized provider identifier fails at
\* construction; the unsupported-provider error never comes out of a later
\* per-clause verification call.
C10_UnsupportedProviderFailsAtConstruction ==
  /\ agent_pc # "unconstructed" => llm_client \in SupportedClients
  /\ raised # UnsupportedProvider

\* verify_clauses reached a clause object with an identifier the verifier does
\* not know
UnsupportedClientVerifying ==
  /\ llm_client \notin SupportedClients
  /\ llm_client # "unset"
  /\ Len(relevant_rules) > 0
  /\ agent_pc \notin {"retrieving", "verifying"}

\* C11: verification with a provider identifier other than openai, gemini,
\* mistral or claude fails with the unsupported-provider error (no verdict is
\* produced for the clause), and no LLM endpoint is called.
C11_UnsupportedProviderFailsWithoutCall ==
  /\ UnsupportedClientVerifying =>
       /\ agent_pc = "raised"
       /\ raised = UnsupportedProvider
       /\ verification_results = <<>>
  /\ llm_client \notin SupportedClients => llm_calls = <<>>

C11_Witness ==
  /\ UnsupportedClientVerifying
  /\ llm_client = "llama"
  /\ raised = UnsupportedProvider
  /\ fault_met = "none"
  /\ llm_calls = <<>>

\* C20: no search is executed against an index that was created but not fully
\* ingested: whenever a retrieve_similar_rules call got its results from the
\* searches it ran, the index holds the whole corpus, whatever calls came
\* before it (a call in which ingestion failed included).
C20_NoSearchBeforeFullIngestion ==
  (agent_pc = "verifying" /\ fault_met = "none") =>
    /\ es_index_exists
    /\ es_docs = CorpusSize

\* C21: for every clause, the user message sent to the LLM contains the
\* original clause and, for each candidate rule the retriever returned for that
\* clause, a {rule, metadata} pair whose rule is that candidate's rule text and
\* whose metadata is that candidate's metadata.
C21_UserMessageCarriesCandidates ==
  \A i \in 1..Len(llm_calls) :
     LET sent == llm_calls[i].request.user_prompt
         matches == relevant_rules[i].matches
     IN  /\ sent.clause = relevant_rules[i].original_clause
         /\ Len(sent.candidate_rules) = Len(matches)
         /\ \A p \in 1..Len(matches) :
              /\ sent.candidate_rules[p].rule = matches[p].rule_text
              /\ sent.candidate_rules[p].metadata = matches[p].metadata

\* C22: ensure_compliance issues exactly one LLM provider call per input
\* clause, the calls happen one after another in input-clause order, none
\* starts before retrieval for all clauses has returned, and risk
\* classification starts only after the last verification has returned.
C22_OneCallPerClauseInOrder ==
  /\ agent_pc \in {"unconstructed", "ready", "retrieving"} => llm_calls = <<>>
  /\ Len(llm_calls) > 0 => Len(relevant_rules) = Len(clauses)
  /\ \A i \in 1..Len(llm_calls) :
       /\ i <= Len(clauses)
       /\ llm_calls[i].request.user_prompt.clause = clauses[i]
  /\ agent_pc = "verifying" => Len(llm_calls) = Len(verification_results)
  /\ agent_pc \in {"explaining", "done"} =>
       /\ Len(llm_calls) = Len(clauses)
       /\ Len(verification_results) = Len(clauses)
  /\ (agent_pc = "raised" /\ Retrieved) => Len(llm_calls) = Len(clauses)

(***************************************************************************)
(* run_pipeline.py run_backend and gcs_client.py                           *)
(* analyze_document_compliance: the document statistics.  compliance_rate  *)
(* is a float rounded to two decimals; it is kept here in hundredths of a  *)
(* percent (70.0 is 7000).  The float round(c / t * 100, 2) equals the     *)
(* half-even rounding of the exact quotient for every total below 160.     *)
(***************************************************************************)
\* the integer nearest to num / den, halves to the even neighbour
RoundHalfEven(num, den) ==
  LET q == num \div den
      r == num % den
  IN  IF 2 * r < den THEN q
      ELSE IF 2 * r > den THEN q + 1
      ELSE IF q % 2 = 0 THEN q ELSE q + 1

\* the quotient cut after two decimals instead of rounded
compliance_rate_truncating(compliant_count, total_clauses) ==
  IF total_clauses > 0 THEN (compliant_count * 10000) \div total_clauses ELSE 0

\* round((compliant_count / total_clauses * 100), 2) if total_clauses > 0 else 0
compliance_rate(compliant_count, total_clauses) ==
  IF total_clauses > 0 THEN RoundHalfEven(compliant_count * 10000, total_clauses) ELSE 0

\* sum(1 for x in xs if <test>), given the outcome of the test for each x
CountTrue(tests) == Cardinality({i \in 1..Len(tests) : tests[i]})

\* result.get("is_compliant", False)
GetIsCompliant(result) ==
  IF "is_compliant" \in DOMAIN result THEN result.is_compliant ELSE FALSE

\* risk and risk.get("severity") == severity
HasSeverity(risk, severity) ==
  /\ risk # None
  /\ "severity" \in DOMAIN risk
  /\ risk.severity = severity

\* the statistics with every clause that has no High, Medium or Low
\* explanation counted as compliant
ComputeStats_unclassified_as_compliant(results) ==
  LET vr == results.verification_results
      re == results.risk_explanations
      total_clauses == Len(vr)
      WithSeverity(severity) == CountTrue([i \in 1..Len(re) |-> HasSeverity(re[i], severity)])
      at_risk == WithSeverity(<<"H","i","g","h">>) + WithSeverity(<<"M","e","d","i","u","m">>)
                 + WithSeverity(<<"L","o","w">>)
  IN  [total_clauses |-> total_clauses,
       compliant_count |-> total_clauses - at_risk,
       non_compliant_count |-> at_risk,
       high_risk_count |-> WithSeverity(<<"H","i","g","h">>),
       medium_risk_count |-> WithSeverity(<<"M","e","d","i","u","m">>),
       low_risk_count |-> WithSeverity(<<"L","o","w">>),
       compliance_rate |-> compliance_rate(total_clauses - at_risk, total_clauses)]

\* the compliance_stats dict both callers build from a compliance result
ComputeStats(results) ==
  LET vr == results.verification_results
      re == results.risk_explanations
      total_clauses == Len(vr)
      compliant_count == CountTrue([i \in 1..Len(vr) |-> GetIsCompliant(vr[i])])
      WithSeverity(severity) == CountTrue([i \in 1..Len(re) |-> HasSeverity(re[i], severity)])
  IN  [total_clauses |-> total_clauses,
       compliant_count |-> compliant_count,
       non_compliant_count |-> total_clauses - compliant_count,
       high_risk_count |-> WithSeverity(<<"H","i","g","h">>),
       medium_risk_count |-> WithSeverity(<<"M","e","d","i","u","m">>),
       low_risk_count |-> WithSeverity(<<"L","o","w">>),
       compliance_rate |-> compliance_rate(compliant_count, total_clauses)]

\* the verdicts of the documents whose statistics are computed
StatVerdicts ==
  {[is_compliant |-> TRUE, matched_rules |-> <<>>],
   [is_compliant |-> FALSE, matched_rules |-> <<MatchedRule(T_GDPR)>>]}

StatsInit ==
  /\ \E vr \in SeqsUpTo(StatVerdicts, MaxStatClauses) :
       compliance_results =
         [verification_results |-> vr, risk_explanations |-> explain_all(vr)]
  /\ compliance_stats = None
  /\ stats_pc = "input"
  /\ upload_clauses = None
  /\ analysis_data = None

\* run_backend, from the return of ensure_compliance to compliance_stats
RunBackendStats ==
  /\ stats_pc = "input"
  /\ compliance_stats' = ComputeStats(compliance_results)
  /\ stats_pc' = "run_backend"
  /\ UNCHANGED <<compliance_results, upload_clauses, analysis_data>>
  /\ UNCHANGED <<riskVars, agentVars, esVars, parseVars, chatVars, intentVars>>

\* analyze_document_compliance, from the return of ensure_compliance on
AnalyzeDocumentStats ==
  /\ stats_pc = "input"
  /\ compliance_stats' = ComputeStats(compliance_results)
  /\ stats_pc' = "analyze_document_compliance"
  /\ UNCHANGED <<compliance_results, upload_clauses, analysis_data>>
  /\ UNCHANGED <<riskVars, agentVars, esVars, parseVars, chatVars, intentVars>>

InitStats == StatsInit /\ RiskIdle /\ AgentIdle /\ ParseIdle /\ ChatIdle /\ IntentIdle

NextStats ==
  \/ RunBackendStats
  \/ AnalyzeDocumentStats

SpecStats == InitStats /\ [][NextStats]_vars

\* number of compliant verdicts of the document, counted from the input
CompliantVerdicts ==
  Cardinality({i \in 1..Len(compliance_results.verification_results) :
                 compliance_results.verification_results[i].is_compliant})

\* C9: compliance_rate is compliant_count / total_clauses * 100 rounded to two
\* decimals when total_clauses > 0 (7 of 10 gives 70.0), and 0 when
\* total_clauses is 0.  In hundredths: rate is within one half of
\* 10000 * compliant / total.
C9_ComplianceRate ==
  stats_pc \in {"run_backend", "analyze_document_compliance"} =>
     LET t == Len(compliance_results.verification_results)
         c == CompliantVerdicts
         rate == compliance_stats.compliance_rate
         diff == rate * t - c * 10000
     IN  /\ t = 0 => rate = 0
         /\ t > 0 => /\ 2 * diff <= t
                     /\ 2 * diff >= -t
         /\ (c = 7 /\ t = 10) => rate = 7000

\* the statistics of a document with 7 compliant clauses of 10 have been computed
C9_Witness ==
  /\ stats_pc = "run_backend"
  /\ Len(compliance_results.verification_results) = 10
  /\ CompliantVerdicts = 7
  /\ compliance_stats.compliance_rate = 7000

(***************************************************************************)
(* run_pipeline.py: run_backend from data["Clauses"] to the stored         *)
(* results, and get_document_analysis reading them back.                   *)
(***************************************************************************)
\* the compliance_stats of a document without clauses, and, with
\* total_clauses = len(clauses), of a document whose compliance check raised
ZeroStats(total_clauses) ==
  [total_clauses |-> total_clauses,
   compliant_count |-> 0,
   non_compliant_count |-> 0,
   high_risk_count |-> 0,
   medium_risk_count |-> 0,
   low_risk_count |-> 0,
   compliance_rate |-> 0]

\* the try block of run_backend; `outcome` is what
\* compliance_agent.ensure_compliance(clauses) does when it is called
run_backend(data_clauses, outcome) ==
  IF Len(data_clauses) = 0
  THEN [path |-> "empty",
        compliance_results |-> [verification_results |-> <<>>, risk_explanations |-> <<>>],
        compliance_stats |-> ZeroStats(0)]
  ELSE IF outcome.raises # None
  THEN [path |-> "failed",
        compliance_results |-> [status |-> "Compliance checking failed",
                                error |-> outcome.raises,
                                verification_results |-> <<>>,
                                risk_explanations |-> <<>>],
        compliance_stats |-> ZeroStats(Len(data_clauses))]
  ELSE [path |-> "success",
        compliance_results |-> outcome.value,
        compliance_stats |-> ComputeStats(outcome.value)]

\* the enhanced clause get_document_analysis builds for clause i
enhanced_clause(i, results) ==
  LET vr == results.verification_results
      re == results.risk_explanations
      verification_result == IF i <= Len(vr) THEN vr[i] ELSE <<>>
      risk_explanation == IF i <= Len(re) THEN re[i] ELSE <<>>
      truthy == risk_explanation # None /\ risk_explanation # <<>>
  IN  [id |-> i,
       isCompliant |-> GetIsCompliant(verification_result),
       riskLevel |-> IF truthy THEN Lower(risk_explanation.severity)
                     ELSE <<"u","n","k","n","o","w","n">>,
       riskScore |-> IF truthy THEN risk_explanation.risk_score ELSE 0]

\* the figures of get_document_analysis that the claims are about
get_document_analysis(data_clauses, results, stats) ==
  [clauses |-> [i \in 1..Len(data_clauses) |-> enhanced_clause(i, results)],
   totalClauses |-> Len(data_clauses),
   compliantClauses |-> stats.compliant_count,
   nonCompliantClauses |-> Len(data_clauses) - stats.compliant_count]

\* the verdicts of an uploaded document: compliant, Legal / High, Legal / Low,
\* and one without any keyword
UploadVerdicts ==
  {[is_compliant |-> TRUE, matched_rules |-> <<MatchedRule(T_GDPR)>>],
   [is_compliant |-> FALSE, matched_rules |-> <<MatchedRule(T_GDPR)>>],
   [is_compliant |-> FALSE, matched_rules |-> <<MatchedRule(T_data_retention_policy)>>],
   [is_compliant |-> FALSE, matched_rules |-> <<MatchedRule(T_without_consent)>>]}

\* what ensure_compliance does on n clauses: it returns n verdicts with their
\* risk slots, or an exception leaves it
EnsureComplianceOutcomes(n) ==
  {Returns([verification_results |-> vr, risk_explanations |-> explain_all(vr)]) :
     vr \in {s \in SeqsUpTo(UploadVerdicts, n) : Len(s) = n}}
  \cup {Raises(Exception("ProviderError"))}

UploadInit ==
  /\ compliance_results = None
  /\ compliance_stats = None
  /\ stats_pc = "uploaded"
  /\ \E n \in 0..MaxUploadClauses :
       upload_clauses = [i \in 1..n |-> [clause_id |-> i, text_en |-> T_clause_retain]]
  /\ analysis_data = None

\* run_backend: the compliance check and the upload of the processing results
RunBackend ==
  /\ stats_pc = "uploaded"
  /\ \E outcome \in EnsureComplianceOutcomes(Len(upload_clauses)) :
       LET r == run_backend(upload_clauses, outcome)
       IN  /\ compliance_results' = r.compliance_results
           /\ compliance_stats' = r.compliance_stats
           /\ stats_pc' = r.path
  /\ UNCHANGED <<upload_clauses, analysis_data>>
  /\ UNCHANGED <<riskVars, agentVars, esVars, parseVars, chatVars, intentVars>>

\* get_document_analysis(document_id) on the stored document
GetDocumentAnalysis ==
  /\ stats_pc \in {"empty", "failed", "success"}
  /\ analysis_data = None
  /\ analysis_data' = get_document_analysis(upload_clauses, compliance_results,
                                            compliance_stats)
  /\ UNCHANGED <<compliance_results, compliance_stats, stats_pc, upload_clauses>>
  /\ UNCHANGED <<riskVars, agentVars, esVars, parseVars, chatVars, intentVars>>

InitUpload == UploadInit /\ RiskIdle /\ AgentIdle /\ ParseIdle /\ ChatIdle /\ IntentIdle

NextUpload == RunBackend \/ GetDocumentAnalysis

SpecUpload == InitUpload /\ [][NextUpload]_vars

\* the clauses of the stored document whose risk explanation is null
Unclassified ==
  {i \in 1..Len(compliance_results.risk_explanations) :
     compliance_results.risk_explanations[i] = None}

\* the clauses of the stored document whose verdict is compliant
CompliantClauses ==
  {i \in 1..Len(compliance_results.verification_results) :
     compliance_results.verification_results[i].is_compliant}

RiskCounts ==
  compliance_stats.high_risk_count + compliance_stats.medium_risk_count
  + compliance_stats.low_risk_count

\* C25: a clause whose risk explanation is null is counted in
\* non_compliant_count and in none of high/medium/low_risk_count when the
\* document statistics are computed; it is never counted in compliant_count nor
\* reported as compliant.
C25_UnclassifiedIsNonCompliant ==
  stats_pc = "success" =>
     /\ Unclassified \cap CompliantClauses = {}
     /\ compliance_stats.compliant_count = Cardinality(CompliantClauses)
     /\ compliance_stats.non_compliant_count =
          Cardinality(Unclassified) + RiskCounts
     /\ analysis_data # None =>
          \A i \in Unclassified :
             /\ ~analysis_data.clauses[i].isCompliant
             /\ analysis_data.clauses[i].riskLevel = <<"u","n","k","n","o","w","n">>
             /\ analysis_data.nonCompliantClauses >= Cardinality(Unclassified)

\* a stored document with an unclassified, a classified and a compliant clause
\* has been analysed
C25_Witness ==
  /\ stats_pc = "success"
  /\ analysis_data # None
  /\ Cardinality(Unclassified) = 1
  /\ Cardinality(CompliantClauses) = 1
  /\ RiskCounts = 1
  /\ compliance_stats.non_compliant_count = 2

\* C27: every compliance_stats record that the upload pipeline stores satisfies
\* compliant_count + non_compliant_count = total_clauses and high_risk_count +
\* medium_risk_count + low_risk_count <= non_compliant_count, on the success
\* path, on the empty-clause path and on the path where compliance checking
\* raised.
C27_StoredStatsAddUp ==
  stats_pc \in {"empty", "failed", "success"} =>
     /\ compliance_stats.compliant_count + compliance_stats.non_compliant_count
          = compliance_stats.total_clauses
     /\ RiskCounts <= compliance_stats.non_compliant_count

(***************************************************************************)
(* safe_json_helper.py safe_json_response and the provider functions that  *)
(* return its result (verify_with_gemini, verify_with_claude,              *)
(* verify_with_mistral).  json.loads is modelled as a parser over the      *)
(* characters of the text for objects, arrays, strings, integers and the   *)
(* literals true, false and null.  A parsed value is wrapped by its type:  *)
(* a dict is [dict |-> f] with f a function from keys to values, a list    *)
(* [list |-> xs], a str [str |-> s], an int [int |-> n], a bool            *)
(* [bool |-> b]; null is None.                                             *)
(***************************************************************************)
JDict(f) == [dict |-> f]

JList(xs) == [list |-> xs]

JStr(s) == [str |-> s]

JInt(n) == [int |-> n]

JBool(b) == [bool |-> b]

\* a scan that stopped with JSONDecodeError
ParseFail == [ok |-> FALSE, value |-> None, next |-> 0]

\* a scan that produced `value` and stopped before position `next`
ParseOk(value, next) == [ok |-> TRUE, value |-> value, next |-> next]

\* the character at position i, "" past the end
At(t, i) == IF i >= 1 /\ i <= Len(t) THEN t[i] ELSE ""

\* json.decoder.WHITESPACE
JsonWhitespace == {" ", "\t", "\n", "\r"}

RECURSIVE SkipWs(_, _)
\* the position of the first character at or after i that is not whitespace
SkipWs(t, i) == IF At(t, i) \in JsonWhitespace THEN SkipWs(t, i + 1) ELSE i

\* does `word` occur in t at position i
WordAt(t, i, word) ==
  /\ i + Len(word) - 1 <= Len(t)
  /\ SubSeq(t, i, i + Len(word) - 1) = word

DigitValue ==
  "0" :> 0 @@ "1" :> 1 @@ "2" :> 2 @@ "3" :> 3 @@ "4" :> 4 @@
  "5" :> 5 @@ "6" :> 6 @@ "7" :> 7 @@ "8" :> 8 @@ "9" :> 9

HexDigits == DOMAIN DigitValue \cup {"a", "b", "c", "d", "e", "f", "A", "B", "C", "D", "E", "F"}

\* json.decoder.BACKSLASH: the character a one-letter escape stands for (the
\* control characters are written by their escapes)
BACKSLASH ==
  "\"" :> "\"" @@ "\\" :> "\\" @@ "/" :> "/" @@ "b" :> "\\b" @@ "f" :> "\f" @@
  "n" :> "\n" @@ "r" :> "\r" @@ "t" :> "\t"

\* the character of a \uXXXX escape; code points other than these are not
\* told apart
UnicodeChar(hex) ==
  IF hex = <<"0", "0", "4", "1">> THEN "A"
  ELSE IF hex = <<"0", "0", "2", "6">> THEN "&"
  ELSE "?"

RECURSIVE ScanString(_, _, _)
\* json.decoder.py_scanstring (strict): t[j - 1] opened the string or belongs
\* to it, acc is what was decoded so far
ScanString(t, j, acc) ==
  LET c == At(t, j)
      esc == At(t, j + 1)
  IN  IF c = "" THEN ParseFail
      ELSE IF c = "\"" THEN ParseOk(JStr(acc), j + 1)
      ELSE IF c \in {"\n", "\t", "\r", "\f"} THEN ParseFail
      ELSE IF c # "\\" THEN ScanString(t, j + 1, Append(acc, c))
      ELSE IF esc \in DOMAIN BACKSLASH
           THEN ScanString(t, j + 2, Append(acc, BACKSLASH[esc]))
      ELSE IF /\ esc = "u"
              /\ j + 5 <= Len(t)
              /\ \A p \in (j + 2)..(j + 5) : t[p] \in HexDigits
           THEN ScanString(t, j + 6, Append(acc, UnicodeChar(SubSeq(t, j + 2, j + 5))))
      ELSE ParseFail

RECURSIVE ScanDigits(_, _, _)
\* the digits of an integer from position j on, n is their value so far
ScanDigits(t, j, n) ==
  IF At(t, j) \in DOMAIN DigitValue
  THEN ScanDigits(t, j + 1, 10 * n + DigitValue[t[j]])
  ELSE ParseOk(JInt(n), j)

\* json.scanner NUMBER_RE, integers only: -?(0|[1-9][0-9]*)
ScanNumber(t, i) ==
  LET neg == At(t, i) = "-"
      j == IF neg THEN i + 1 ELSE i
      d == IF At(t, j) = "0" THEN ParseOk(JInt(0), j + 1) ELSE ScanDigits(t, j, 0)
  IN  IF At(t, j) \notin DOMAIN DigitValue THEN ParseFail
      ELSE IF neg THEN ParseOk(JInt(0 - d.value.int), d.next) ELSE d

RECURSIVE ParseValue(_, _)
RECURSIVE ParseMembers(_, _, _)
RECURSIVE ParseElements(_, _, _)

\* json.scanner.py_make_scanner _scan_once at position i
ParseValue(t, i) ==
  LET c == At(t, i)
  IN  IF c = "\"" THEN ScanString(t, i + 1, <<>>)
      ELSE IF c = "{"
           THEN LET j == SkipWs(t, i + 1)
                IN  IF At(t, j) = "}" THEN ParseOk(JDict(<<>>), j + 1)
                    ELSE ParseMembers(t, j, <<>>)
      ELSE IF c = "["
           THEN LET j == SkipWs(t, i + 1)
                IN  IF At(t, j) = "]" THEN ParseOk(JList(<<>>), j + 1)
                    ELSE ParseElements(t, j, <<>>)
      ELSE IF WordAt(t, i, <<"n", "u", "l", "l">>) THEN ParseOk(None, i + 4)
      ELSE IF WordAt(t, i, <<"t", "r", "u", "e">>) THEN ParseOk(JBool(TRUE), i + 4)
      ELSE IF WordAt(t, i, <<"f", "a", "l", "s", "e">>) THEN ParseOk(JBool(FALSE), i + 5)
      ELSE IF c = "-" \/ c \in DOMAIN DigitValue THEN ScanNumber(t, i)
      ELSE ParseFail

\* json.decoder.JSONObject from a property name on: a name must open with a
\* double quote, the pairs are separated by commas, a later pair of the same
\* name replaces the earlier one
ParseMembers(t, i, acc) ==
  IF At(t, i) # "\"" THEN ParseFail
  ELSE LET key == ScanString(t, i + 1, <<>>)
           colon == SkipWs(t, key.next)
           val == ParseValue(t, SkipWs(t, colon + 1))
           after == SkipWs(t, val.next)
           pairs == (key.value.str :> val.value) @@ acc
       IN  IF ~key.ok THEN ParseFail
           ELSE IF At(t, colon) # ":" THEN ParseFail
           ELSE IF ~val.ok THEN ParseFail
           ELSE IF At(t, after) = "}" THEN ParseOk(JDict(pairs), after + 1)
           ELSE IF At(t, after) = "," THEN ParseMembers(t, SkipWs(t, after + 1), pairs)
           ELSE ParseFail

\* json.decoder.JSONArray from an element on
ParseElements(t, i, acc) ==
  LET val == ParseValue(t, i)
      after == SkipWs(t, val.next)
      xs == Append(acc, val.value)
  IN  IF ~val.ok THEN ParseFail
      ELSE IF At(t, after) = "]" THEN ParseOk(JList(xs), after + 1)
      ELSE IF At(t, after) = "," THEN ParseElements(t, SkipWs(t, after + 1), xs)
      ELSE ParseFail

\* json.loads(text): one value, whitespace around it, nothing after it
json_loads(text) ==
  LET val == ParseValue(text, SkipWs(text, 1))
  IN  IF ~val.ok THEN ParseFail
      ELSE IF SkipWs(text, val.next) <= Len(text) THEN ParseFail
      ELSE val

\* re.search(r"\{.*\}", text, re.DOTALL): from the first opening brace to the
\* last closing brace after it; None when there is no such pair
search_braces(text) ==
  LET opens == {i \in 1..Len(text) : text[i] = "{"}
      first == CHOOSE i \in opens : \A j \in opens : i <= j
      closes == {i \in 1..Len(text) : text[i] = "}" /\ i > first}
      last == CHOOSE i \in closes : \A j \in closes : j <= i
  IN  IF opens = {} \/ closes = {} THEN None
      ELSE Some(SubSeq(text, first, last))

RECURSIVE escape_invalid_backslashes(_, _)
\* re.sub(r'\\(?![\\/"bfnrtu])', r'\\\\', raw_json) from position i on: a
\* backslash is doubled unless one of \ / " b f n r t u follows it
escape_invalid_backslashes(raw_json, i) ==
  IF i > Len(raw_json) THEN <<>>
  ELSE (IF /\ raw_json[i] = "\\"
           /\ At(raw_json, i + 1) \notin {"\\", "/", "\"", "b", "f", "n", "r", "t", "u"}
        THEN <<"\\", "\\">>
        ELSE <<raw_json[i]>>) \o escape_invalid_backslashes(raw_json, i + 1)

JSONDecodeError == Exception("JSONDecodeError")

\* a variant that gives up quietly: None instead of the parse error
safe_json_response_swallowing(text) ==
  LET direct == json_loads(text)
      match == search_braces(text)
      retry == json_loads(escape_invalid_backslashes(match.some, 1))
  IN  IF direct.ok THEN Returns(direct.value)
      ELSE IF match # None /\ retry.ok THEN Returns(retry.value)
      ELSE Returns(None)

\* safe_json_response(text)
safe_json_response(text) ==
  LET direct == json_loads(text)
      match == search_braces(text)
      retry == json_loads(escape_invalid_backslashes(match.some, 1))
  IN  IF direct.ok THEN Returns(direct.value)
      ELSE IF match # None
           THEN (IF retry.ok THEN Returns(retry.value) ELSE Raises(JSONDecodeError))
      ELSE Raises(JSONDecodeError)

\* what the model put between the braces of its verdict
Members ==
  {\* "is_compliant": true
   <<"\"","i","s","_","c","o","m","p","l","i","a","n","t","\"",":"," ","t","r","u","e">>,
   \* "is_compliant": false, "final_reason": "see C:\docs"
   <<"\"","i","s","_","c","o","m","p","l","i","a","n","t","\"",":"," ","f","a","l","s","e",","," ","\"","f","i","n","a","l","_","r","e","a","s","o","n","\"",":"," ","\"","s","e","e"," ","C",":","\\","d","o","c","s","\"">>,
   \* "matched_rules": [{"rule": "GDPR"}], "risk_score": 7
   <<"\"","m","a","t","c","h","e","d","_","r","u","l","e","s","\"",":"," ","[","{","\"","r","u","l","e","\"",":"," ","\"","G","D","P","R","\"","}","]",","," ","\"","r","i","s","k","_","s","c","o","r","e","\"",":"," ","7">>}

\* the verdict object, as the model wrote it
ObjectText(members, trailing_comma) ==
  <<"{">> \o members \o (IF trailing_comma THEN <<",">> ELSE <<>>) \o <<"}">>

\* the answers of a model: a verdict object, or something else
Bodies ==
  {ObjectText(m, c) : m \in Members, c \in BOOLEAN} \cup
  {\* {}
   <<"{","}">>,
   \* {"is_compliant": true
   <<"{","\"","i","s","_","c","o","m","p","l","i","a","n","t","\"",":"," ","t","r","u","e">>,
   \* The clause is compliant.
   <<"T","h","e"," ","c","l","a","u","s","e"," ","i","s"," ","c","o","m","p","l","i","a","n","t",".">>,
   \* {'is_compliant': true}
   <<"{","'","i","s","_","c","o","m","p","l","i","a","n","t","'",":"," ","t","r","u","e","}">>,
   \* {"final_reason": "see C:\\docs"}
   <<"{","\"","f","i","n","a","l","_","r","e","a","s","o","n","\"",":"," ","\"","s","e","e"," ","C",":","\\","\\","d","o","c","s","\"","}">>,
   \* {"final_reason": "see C:\users"}
   <<"{","\"","f","i","n","a","l","_","r","e","a","s","o","n","\"",":"," ","\"","s","e","e"," ","C",":","\\","u","s","e","r","s","\"","}">>,
   \* {"final_reason": "\u0041 \n"}
   <<"{","\"","f","i","n","a","l","_","r","e","a","s","o","n","\"",":"," ","\"","\\","u","0","0","4","1"," ","\\","n","\"","}">>,
   \* "compliant"
   <<"\"","c","o","m","p","l","i","a","n","t","\"">>,
   \* {"a": {"b": null}, "a": [ ]}
   <<"{","\"","a","\"",":"," ","{","\"","b","\"",":"," ","n","u","l","l","}",","," ","\"","a","\"",":"," ","["," ","]","}">>}

\* what a model puts around its answer: nothing, markdown code fences, prose
\* (the grave accent is written "grave")
Wrappers ==
  {[open |-> <<>>,
    close |-> <<>>],
   [open |-> <<"grave","grave","grave","j","s","o","n","\n">>,
    close |-> <<"\n","grave","grave","grave">>],
   [open |-> <<"grave","grave","grave","\n">>,
    close |-> <<"\n","grave","grave","grave">>],
   [open |-> <<"H","e","r","e"," ","i","s"," ","t","h","e"," ","v","e","r","d","i","c","t",":"," ">>,
    close |-> <<" ","H","o","p","e"," ","t","h","i","s"," ","h","e","l","p","s",".">>],
   [open |-> <<"V","e","r","d","i","c","t"," ","{","f","i","n","a","l","}",":"," ">>,
    close |-> <<" ","(","s","e","e"," ","{","n","o","t","e","}",")">>]}

MarkdownFences ==
  {w \in Wrappers : Len(w.open) >= 3 /\ SubSeq(w.open, 1, 3) = <<"grave", "grave", "grave">>}

Wrapped(w, body) == w.open \o body \o w.close

\* response.text of the provider
RawTexts == {Wrapped(w, b) : w \in Wrappers, b \in Bodies}

ParseInit ==
  /\ raw = None
  /\ parse_result = NotCalled
  /\ parse_pc = "generating"

\* response = model.generate_content(...); raw = response.text
GenerateContent ==
  /\ parse_pc = "generating"
  /\ \E text \in RawTexts : raw' = Some(text)
  /\ parse_pc' = "parsing"
  /\ UNCHANGED parse_result
  /\ UNCHANGED <<riskVars, agentVars, esVars, statsVars, chatVars, intentVars>>

\* return safe_json_response(raw): the caller of the provider function gets
\* the value, or the exception
ReturnSafeJsonResponse ==
  /\ parse_pc = "parsing"
  /\ parse_result' = safe_json_response(raw.some)
  /\ parse_pc' = "returned"
  /\ UNCHANGED raw
  /\ UNCHANGED <<riskVars, agentVars, esVars, statsVars, chatVars, intentVars>>

\* the next call of the provider function
NextProviderCall ==
  /\ parse_pc = "returned"
  /\ raw' = None
  /\ parse_result' = NotCalled
  /\ parse_pc' = "generating"
  /\ UNCHANGED <<riskVars, agentVars, esVars, statsVars, chatVars, intentVars>>

InitParse == ParseInit /\ RiskIdle /\ AgentIdle /\ StatsIdle /\ ChatIdle /\ IntentIdle

NextParse == GenerateContent \/ ReturnSafeJsonResponse \/ NextProviderCall

SpecParse == InitParse /\ [][NextParse]_vars

\* C12: raw text that is a JSON object in markdown code fences with a trailing
\* comma before the closing brace parses to the object that the same text
\* without the fences and without the trailing comma parses to.
C12_FencedTrailingCommaParsesAsClean ==
  \A w \in MarkdownFences, m \in Members :
    (parse_pc = "returned" /\ raw = Some(Wrapped(w, ObjectText(m, TRUE)))) =>
      parse_result = safe_json_response(ObjectText(m, FALSE))

\* neither the text nor the escaped greedy {...} substring of it decodes
Undecodable(text) ==
  LET match == search_braces(text)
  IN  /\ ~json_loads(text).ok
      /\ \/ match = None
         \/ ~json_loads(escape_invalid_backslashes(match.some, 1)).ok

\* C13: when the raw text decodes neither directly nor after the greedy {...}
\* extraction and the escaping of invalid backslashes, the provider function
\* ends with the parse error: its caller gets the exception and no value.
C13_ParseErrorReachesCaller ==
  (parse_pc = "returned" /\ Undecodable(raw.some)) =>
    /\ parse_result.raises = JSONDecodeError
    /\ parse_result.value = None

\* the retry was made, on an extracted substring, and failed as well
C13_Witness ==
  /\ parse_pc = "returned"
  /\ Undecodable(raw.some)
  /\ search_braces(raw.some) # None
  /\ parse_result = Raises(JSONDecodeError)

(***************************************************************************)
(* verifier_llms: the four provider functions, on one raw model output.    *)
(* Here parse_result maps each provider function that has returned to what *)
(* it returned or raised.                                                  *)
(***************************************************************************)
\* verify_with_openai: return json.loads(response.choices[0].message.content)
verify_with_openai(content) ==
  LET direct == json_loads(content)
  IN  IF direct.ok THEN Returns(direct.value) ELSE Raises(JSONDecodeError)

\* verify_with_gemini: raw = response.text; return safe_json_response(raw)
verify_with_gemini(text) == safe_json_response(text)

\* verify_with_mistral: return safe_json_response(raw)
verify_with_mistral(content) == safe_json_response(content)

\* verify_with_claude: raw = response.content[0].text; return safe_json_response(raw)
verify_with_claude(text) == safe_json_response(text)

\* the dispatch of examine_clause, on the text the provider's model answered
verify_with(provider, text) ==
  CASE provider = "openai" -> verify_with_openai(text)
    [] provider = "gemini" -> verify_with_gemini(text)
    [] provider = "mistral" -> verify_with_mistral(text)
    [] provider = "claude" -> verify_with_claude(text)

ProvidersInit ==
  /\ raw = None
  /\ parse_result = [p \in {} |-> NotCalled]
  /\ parse_pc = "generating"

\* the model answered: the same text is given to every provider function
ModelAnswers ==
  /\ parse_pc = "generating"
  /\ \E text \in RawTexts : raw' = Some(text)
  /\ parse_pc' = "parsing"
  /\ UNCHANGED parse_result
  /\ UNCHANGED <<riskVars, agentVars, esVars, statsVars, chatVars, intentVars>>

\* one provider function parses the text and returns or raises
ProviderReturns(provider) ==
  /\ parse_pc = "parsing"
  /\ provider \notin DOMAIN parse_result
  /\ parse_result' = [p \in DOMAIN parse_result \cup {provider} |->
                        IF p = provider THEN verify_with(provider, raw.some)
                        ELSE parse_result[p]]
  /\ UNCHANGED <<raw, parse_pc>>
  /\ UNCHANGED <<riskVars, agentVars, esVars, statsVars, chatVars, intentVars>>

\* the next model output
NextModelOutput ==
  /\ parse_pc = "parsing"
  /\ DOMAIN parse_result = SupportedClients
  /\ raw' = None
  /\ parse_result' = [p \in {} |-> NotCalled]
  /\ parse_pc' = "generating"
  /\ UNCHANGED <<riskVars, agentVars, esVars, statsVars, chatVars, intentVars>>

InitProviders == ProvidersInit /\ RiskIdle /\ AgentIdle /\ StatsIdle /\ ChatIdle /\ IntentIdle

NextProviders ==
  \/ ModelAnswers
  \/ \E provider \in SupportedClients : ProviderReturns(provider)
  \/ NextModelOutput

SpecProviders == InitProviders /\ [][NextProviders]_vars

\* C23: every provider backend (openai, gemini, mistral, claude) turns the same
\* raw LLM text into the same verdict or the same failure.
C23_ProvidersParseAlike ==
  \A p, q \in DOMAIN parse_result : parse_result[p] = parse_result[q]

(***************************************************************************)
(* conversational_agent.py: ConversationalComplianceAgent.  The agent's    *)
(* conversation table maps a session id to its record, None for an id that *)
(* is not in the table.  datetime.now() is a clock that every reading      *)
(* advances: `clock` lists, per reading, the session id of the call that   *)
(* made it, and a timestamp is the number of the reading.  Calls on one    *)
(* session id are sequential; calls on different ids interleave at the     *)
(* retriever call and at the verifier's chat call.  The bullet character   *)
(* of the templates is written "bullet".                                   *)
(***************************************************************************)
\* self.max_history
max_history == 10

\* what the agent is constructed with as llm_verifier: nothing, a
\* VertexAIVerifier (it has chat and clear_session), an LLMVerifier (it has
\* neither)
Verifiers == {"None", "VertexAIVerifier", "LLMVerifier"}

\* a verifier with a chat method that lets the provider's exception out
\* (VertexAIVerifier.chat turns it into text)
AnyVerifiers == Verifiers \cup {"ChatVerifier"}

\* hasattr(self.llm_verifier, 'chat')
HasChat(verifier) == verifier \in {"VertexAIVerifier", "ChatVerifier"}

\* hasattr(self.llm_verifier, 'clear_session')
HasClearSession(verifier) == verifier = "VertexAIVerifier"

\* the reading of the clock made after `reads` earlier readings
Timestamp(reads) == reads + 1

\* start_session(session_id) read at time t
start_session(history, session_id, t) ==
  [history EXCEPT ![session_id] =
     [messages |-> <<>>, context |-> {}, started_at |-> t]]

\* a variant that starts the session over on every call
ensure_session_resetting(history, session_id, t) ==
  start_session(history, session_id, t)

\* chat: if session_id not in self.conversation_history: self.start_session(session_id)
ensure_session(history, session_id, t) ==
  IF history[session_id] = None THEN start_session(history, session_id, t)
  ELSE history

\* a variant in which all records share one message list
append_message_shared(history, session_id, message) ==
  [s \in SessionIds |->
     IF history[s] = None THEN None
     ELSE [history[s] EXCEPT !.messages = Append(@, message)]]

\* session = self.conversation_history[session_id]; session["messages"].append(message)
append_message(history, session_id, message) ==
  [history EXCEPT ![session_id].messages = Append(@, message)]

\* dict.update on a dict kept as a set of <<key, value>> pairs
update(context, other) ==
  {kv \in context : \A o \in other : o[1] # kv[1]} \cup other

\* the trim keeping one entry more than max_history * 2
trim_one_too_many(messages) ==
  IF Len(messages) > max_history * 2
  THEN SubSeq(messages, Len(messages) - max_history * 2, Len(messages))
  ELSE messages

\* a variant that keeps the oldest messages
trim_keeping_oldest(messages) ==
  IF Len(messages) > max_history * 2
  THEN SubSeq(messages, 1, max_history * 2)
  ELSE messages

\* session["messages"][-self.max_history * 2:] when the list is longer
trim(messages) ==
  IF Len(messages) > max_history * 2
  THEN SubSeq(messages, Len(messages) - max_history * 2 + 1, Len(messages))
  ELSE messages

\* the keyword groups of _analyze_intent, in the order of the if/elif chain
compliance_check_words ==
  <<<<"c","o","m","p","l","i","a","n","t">>,
    <<"c","o","m","p","l","y">>,
    <<"v","i","o","l","a","t","i","o","n">>,
    <<"v","i","o","l","a","t","e">>>>

regulation_lookup_words ==
  <<<<"r","e","g","u","l","a","t","i","o","n">>,
    <<"r","u","l","e">>,
    <<"s","e","b","i">>,
    <<"p","r","o","v","i","s","i","o","n">>>>

risk_assessment_words ==
  <<<<"r","i","s","k">>,
    <<"d","a","n","g","e","r">>,
    <<"c","o","n","s","e","q","u","e","n","c","e">>,
    <<"p","e","n","a","l","t","y">>>>

clarification_words ==
  <<<<"w","h","a","t">>,
    <<"w","h","y">>,
    <<"h","o","w">>,
    <<"e","x","p","l","a","i","n">>,
    <<"c","l","a","r","i","f","y">>>>

\* any(word in message_lower for word in words)
AnyWord(words, message_lower) ==
  \E i \in 1..Len(words) : Contains(words[i], message_lower)

\* a variant that looks for regulation words first
_analyze_intent_regulation_first(message) ==
  LET message_lower == Lower(message)
  IN  IF AnyWord(regulation_lookup_words, message_lower) THEN "regulation_lookup"
      ELSE IF AnyWord(compliance_check_words, message_lower) THEN "compliance_check"
      ELSE IF AnyWord(risk_assessment_words, message_lower) THEN "risk_assessment"
      ELSE IF AnyWord(clarification_words, message_lower) THEN "clarification"
      ELSE "general_question"

\* _analyze_intent(message, session)
_analyze_intent(message) ==
  LET message_lower == Lower(message)
  IN  IF AnyWord(compliance_check_words, message_lower) THEN "compliance_check"
      ELSE IF AnyWord(regulation_lookup_words, message_lower) THEN "regulation_lookup"
      ELSE IF AnyWord(risk_assessment_words, message_lower) THEN "risk_assessment"
      ELSE IF AnyWord(clarification_words, message_lower) THEN "clarification"
      ELSE "general_question"

\* the intents the retriever is asked for
GroundedIntents == {"compliance_check", "regulation_lookup", "risk_assessment"}

\* 'N/A'
T_NA == <<"N","/","A">>

\* reg.get('rule_text', 'N/A')
RuleTextOf(reg) == IF "rule_text" \in DOMAIN reg THEN reg.rule_text ELSE T_NA

\* regulations[:n]
Take(xs, n) == SubSeq(xs, 1, Min(n, Len(xs)))

\* 'Based on SEBI regulations, here are relevant provisions:\n\n'
FallbackProvisionsHead == <<"B","a","s","e","d"," ","o","n"," ","S","E","B","I"," ","r","e","g","u","l","a","t","i","o","n","s",","," ","h","e","r","e"," ","a","r","e"," ","r","e","l","e","v","a","n","t"," ","p","r","o","v","i","s","i","o","n","s",":","\n","\n">>

\* '\n\nI recommend reviewing these regulations against your specific clause.'
FallbackProvisionsTail == <<"\n","\n","I"," ","r","e","c","o","m","m","e","n","d"," ","r","e","v","i","e","w","i","n","g"," ","t","h","e","s","e"," ","r","e","g","u","l","a","t","i","o","n","s"," ","a","g","a","i","n","s","t"," ","y","o","u","r"," ","s","p","e","c","i","f","i","c"," ","c","l","a","u","s","e",".">>

\* "I couldn't find directly relevant regulations. Could you provide more specific details about the clause?"
FallbackNoProvisions == <<"I"," ","c","o","u","l","d","n","'","t"," ","f","i","n","d"," ","d","i","r","e","c","t","l","y"," ","r","e","l","e","v","a","n","t"," ","r","e","g","u","l","a","t","i","o","n","s","."," ","C","o","u","l","d"," ","y","o","u"," ","p","r","o","v","i","d","e"," ","m","o","r","e"," ","s","p","e","c","i","f","i","c"," ","d","e","t","a","i","l","s"," ","a","b","o","u","t"," ","t","h","e"," ","c","l","a","u","s","e","?">>

\* 'Here are the relevant SEBI regulations:\n\n'
FallbackRegulationsHead == <<"H","e","r","e"," ","a","r","e"," ","t","h","e"," ","r","e","l","e","v","a","n","t"," ","S","E","B","I"," ","r","e","g","u","l","a","t","i","o","n","s",":","\n","\n">>

\* "I couldn't find specific regulations matching your query. Try rephrasing or being more specific."
FallbackNoRegulations == <<"I"," ","c","o","u","l","d","n","'","t"," ","f","i","n","d"," ","s","p","e","c","i","f","i","c"," ","r","e","g","u","l","a","t","i","o","n","s"," ","m","a","t","c","h","i","n","g"," ","y","o","u","r"," ","q","u","e","r","y","."," ","T","r","y"," ","r","e","p","h","r","a","s","i","n","g"," ","o","r"," ","b","e","i","n","g"," ","m","o","r","e"," ","s","p","e","c","i","f","i","c",".">>

\* 'Risk assessment requires detailed analysis. Please upload the document for comprehensive risk evaluation.'
FallbackRiskAssessment == <<"R","i","s","k"," ","a","s","s","e","s","s","m","e","n","t"," ","r","e","q","u","i","r","e","s"," ","d","e","t","a","i","l","e","d"," ","a","n","a","l","y","s","i","s","."," ","P","l","e","a","s","e"," ","u","p","l","o","a","d"," ","t","h","e"," ","d","o","c","u","m","e","n","t"," ","f","o","r"," ","c","o","m","p","r","e","h","e","n","s","i","v","e"," ","r","i","s","k"," ","e","v","a","l","u","a","t","i","o","n",".">>

\* "I'm here to help with SEBI compliance questions. You can ask about:\n• Specific regulations\n• Compliance verification\n• Risk assessment\n• Regulatory requirements"
FallbackHelp == <<"I","'","m"," ","h","e","r","e"," ","t","o"," ","h","e","l","p"," ","w","i","t","h"," ","S","E","B","I"," ","c","o","m","p","l","i","a","n","c","e"," ","q","u","e","s","t","i","o","n","s","."," ","Y","o","u"," ","c","a","n"," ","a","s","k"," ","a","b","o","u","t",":","\n","bullet"," ","S","p","e","c","i","f","i","c"," ","r","e","g","u","l","a","t","i","o","n","s","\n","bullet"," ","C","o","m","p","l","i","a","n","c","e"," ","v","e","r","i","f","i","c","a","t","i","o","n","\n","bullet"," ","R","i","s","k"," ","a","s","s","e","s","s","m","e","n","t","\n","bullet"," ","R","e","g","u","l","a","t","o","r","y"," ","r","e","q","u","i","r","e","m","e","n","t","s">>

\* the decimal digit of i, for 0 <= i <= 9
DigitOf(i) == CHOOSE c \in DOMAIN DigitValue : DigitValue[c] = i

\* _fallback_response(message, intent, regulations)
_fallback_response(message, intent, regulations) ==
  IF intent = "compliance_check"
  THEN IF Len(regulations) > 0
       THEN FallbackProvisionsHead
            \o Join(<<"\n", "\n">>,
                    [i \in 1..Len(Take(regulations, 2)) |->
                       <<"bullet", " ">> \o RuleTextOf(regulations[i])])
            \o FallbackProvisionsTail
       ELSE FallbackNoProvisions
  ELSE IF intent = "regulation_lookup"
  THEN IF Len(regulations) > 0
       THEN FallbackRegulationsHead
            \o Join(<<"\n", "\n">>,
                    [i \in 1..Len(Take(regulations, 3)) |->
                       <<DigitOf(i), ".", " ">> \o RuleTextOf(regulations[i])])
       ELSE FallbackNoRegulations
  ELSE IF intent = "risk_assessment" THEN FallbackRiskAssessment
  ELSE FallbackHelp

\* _generate_suggestions(intent, document_context)
_generate_suggestions(intent) ==
  IF intent = "compliance_check"
  THEN <<<<"W","o","u","l","d"," ","y","o","u"," ","l","i","k","e"," ","a"," ","d","e","t","a","i","l","e","d"," ","r","i","s","k"," ","a","s","s","e","s","s","m","e","n","t","?">>,
         <<"S","h","o","u","l","d"," ","I"," ","c","h","e","c","k"," ","f","o","r"," ","r","e","l","a","t","e","d"," ","r","e","g","u","l","a","t","i","o","n","s","?">>,
         <<"D","o"," ","y","o","u"," ","w","a","n","t"," ","r","e","c","o","m","m","e","n","d","a","t","i","o","n","s"," ","f","o","r"," ","c","o","m","p","l","i","a","n","c","e","?">>>>
  ELSE IF intent = "regulation_lookup"
  THEN <<<<"W","o","u","l","d"," ","y","o","u"," ","l","i","k","e"," ","t","o"," ","v","e","r","i","f","y"," ","a"," ","c","l","a","u","s","e"," ","a","g","a","i","n","s","t"," ","t","h","e","s","e"," ","r","e","g","u","l","a","t","i","o","n","s","?">>,
         <<"S","h","o","u","l","d"," ","I"," ","e","x","p","l","a","i","n"," ","a","n","y"," ","s","p","e","c","i","f","i","c"," ","r","e","g","u","l","a","t","i","o","n"," ","i","n"," ","d","e","t","a","i","l","?">>,
         <<"D","o"," ","y","o","u"," ","n","e","e","d"," ","t","h","e"," ","o","f","f","i","c","i","a","l"," ","S","E","B","I"," ","c","i","r","c","u","l","a","r"," ","r","e","f","e","r","e","n","c","e","s","?">>>>
  ELSE IF intent = "risk_assessment"
  THEN <<<<"W","o","u","l","d"," ","y","o","u"," ","l","i","k","e"," ","m","i","t","i","g","a","t","i","o","n"," ","s","t","r","a","t","e","g","i","e","s","?">>,
         <<"S","h","o","u","l","d"," ","I"," ","i","d","e","n","t","i","f","y"," ","a","f","f","e","c","t","e","d"," ","s","t","a","k","e","h","o","l","d","e","r","s","?">>,
         <<"D","o"," ","y","o","u"," ","n","e","e","d"," ","a"," ","c","o","m","p","l","i","a","n","c","e"," ","t","i","m","e","l","i","n","e","?">>>>
  ELSE <<<<"W","o","u","l","d"," ","y","o","u"," ","l","i","k","e"," ","t","o"," ","u","p","l","o","a","d"," ","a"," ","d","o","c","u","m","e","n","t"," ","f","o","r"," ","a","n","a","l","y","s","i","s","?">>,
         <<"D","o"," ","y","o","u"," ","h","a","v","e"," ","a"," ","s","p","e","c","i","f","i","c"," ","c","l","a","u","s","e"," ","t","o"," ","v","e","r","i","f","y","?">>,
         <<"S","h","o","u","l","d"," ","I"," ","e","x","p","l","a","i","n"," ","S","E","B","I"," ","c","o","m","p","l","i","a","n","c","e"," ","r","e","q","u","i","r","e","m","e","n","t","s","?">>>>

\* _build_contextual_prompt: the parts the prompt is built from
_build_contextual_prompt(message, intent, regulations, document_context) ==
  [intent |-> intent,
   question |-> message,
   regulations |-> [i \in 1..Len(Take(regulations, 3)) |-> RuleTextOf(regulations[i])],
   document |-> document_context]

\* session.get("session_id", "default"): the chat session the verifier is
\* asked to use
provider_session_id(session) ==
  IF "session_id" \in DOMAIN session THEN session.session_id ELSE "default"

\* 'Is this clause compliant?'
T_is_compliant_q == <<"I","s"," ","t","h","i","s"," ","c","l","a","u","s","e"," ","c","o","m","p","l","i","a","n","t","?">>

\* 'hello'
T_hello == <<"h","e","l","l","o">>

\* 'The clause meets the SEBI rules.'
T_llm_answer == <<"T","h","e"," ","c","l","a","u","s","e"," ","m","e","e","t","s"," ","t","h","e"," ","S","E","B","I"," ","r","u","l","e","s",".">>

\* 'Error in chat: '
ErrorInChat == <<"E","r","r","o","r"," ","i","n"," ","c","h","a","t",":"," ">>

\* 'quota exceeded'
T_quota == <<"q","u","o","t","a"," ","e","x","c","e","e","d","e","d">>

\* the messages users send
ChatMessages == {T_is_compliant_q, T_hello}

\* the document_context argument: absent, or the document being analyzed
DocumentContexts == {None, Some({<<"name", "contract.pdf">>})}

\* what the retriever call of _generate_response does: it raises, or returns
\* the result list for the pseudo-clause
ChatRetrievals ==
  {[raises |-> Exception("ConnectionError"), results |-> <<>>],
   [raises |-> None, results |-> <<>>],
   [raises |-> None,
    results |-> <<[matches |-> <<[rule_text |-> T_GDPR],
                                  [rule_text |-> T_data_retention_policy],
                                  [metadata |-> <<>>]>>]>>]}

\* what chat_session.send_message does: it returns the text, or raises
SendMessageOutcomes ==
  {[raises |-> None, text |-> T_llm_answer],
   [raises |-> Exception("ResourceExhausted"), text |-> T_quota]}

\* VertexAIVerifier.chat(message, session_id): the provider's chat-session
\* table afterwards and the text returned.  A table entry records the
\* conversation whose turn created it and the conversations whose turns it was
\* sent.
verifier_chat(sessions, prompt, session_id, conversation, outcome) ==
  LET s1 == IF sessions[session_id] = None
            THEN [sessions EXCEPT ![session_id] =
                    [created_for |-> conversation, turns_of |-> {}]]
            ELSE sessions
      s2 == [s1 EXCEPT ![session_id].turns_of = @ \cup {conversation}]
  IN  IF outcome.raises = None
      THEN [chat_sessions |-> s2, text |-> outcome.text]
      ELSE [chat_sessions |-> s2, text |-> ErrorInChat \o outcome.text]

\* VertexAIVerifier.clear_session(session_id)
verifier_clear_session(sessions, session_id) ==
  [sessions EXCEPT ![session_id] = None]

\* clear_session(session_id)
clear_session(history, sessions, verifier, session_id) ==
  IF history[session_id] # None
  THEN [conversation_history |-> [history EXCEPT ![session_id] = None],
        chat_sessions |-> IF verifier # "None" /\ HasClearSession(verifier)
                          THEN verifier_clear_session(sessions, session_id)
                          ELSE sessions]
  ELSE [conversation_history |-> history, chat_sessions |-> sessions]

\* the response a call assembles and returns
Response(call, answer, confidence) ==
  [answer |-> answer,
   intent |-> call.intent,
   suggestions |-> _generate_suggestions(call.intent),
   retrieved_regulations |-> call.retrieved_regulations,
   confidence |-> confidence]

\* chat, from the assistant message on: the message is appended, the history
\* trimmed, the response returned.  `agent` is the agent's state when the
\* call resumes, clk the clock.
Complete(agent, clk, s, call, answer, confidence) ==
  LET assistant == [role |-> "assistant", content |-> answer,
                    timestamp |-> Timestamp(Len(clk)), intent |-> call.intent]
      appended == append_message(agent.history, s, assistant)
  IN  /\ conversation_history' = [appended EXCEPT ![s].messages = trim(@)]
      /\ clock' = Append(clk, s)
      /\ chat_call' = [agent.calls EXCEPT ![s] =
                         [call EXCEPT !.pc = "returned",
                                      !.response = Some(Response(call, answer, confidence))]]
      /\ chat_turns' = [agent.turns EXCEPT ![s] = @ + 1]

\* the call waits for the retriever or for the verifier
Suspend(agent, clk, s, call, pc) ==
  /\ conversation_history' = agent.history
  /\ clock' = clk
  /\ chat_call' = [agent.calls EXCEPT ![s] = [call EXCEPT !.pc = pc]]
  /\ chat_turns' = agent.turns

\* a variant without the hasattr test: a verifier without chat makes the
\* call raise AttributeError, which ends in the `except` branch
AfterRetrieval_without_hasattr(agent, clk, s, call) ==
  LET fallback == _fallback_response(call.user_message, call.intent,
                                     call.retrieved_regulations)
  IN  IF agent.verifier = "None" THEN Complete(agent, clk, s, call, fallback, 5)
      ELSE IF HasChat(agent.verifier) THEN Suspend(agent, clk, s, call, "generating")
      ELSE Complete(agent, clk, s, call, fallback, 5)

\* _generate_response, from `if self.llm_verifier:` on
AfterRetrieval(agent, clk, s, call) ==
  LET fallback == _fallback_response(call.user_message, call.intent,
                                     call.retrieved_regulations)
  IN  IF agent.verifier = "None" THEN Complete(agent, clk, s, call, fallback, 5)
      ELSE IF HasChat(agent.verifier) THEN Suspend(agent, clk, s, call, "generating")
      ELSE Complete(agent, clk, s, call, fallback, 6)

\* chat(user_message, session_id, document_context) on an agent in state
\* `agent`, up to the first call that suspends it
EnterChat(agent, s, user_message, document_context) ==
  LET unseen == agent.history[s] = None
      ensured == ensure_session(agent.history, s, Timestamp(Len(clock)))
      clk1 == IF unseen THEN Append(clock, s) ELSE clock
      user == [role |-> "user", content |-> user_message,
               timestamp |-> Timestamp(Len(clk1))]
      appended == append_message(ensured, s, user)
      clk2 == Append(clk1, s)
      history == IF document_context # None /\ document_context.some # {}
                 THEN [appended EXCEPT ![s].context = update(@, document_context.some)]
                 ELSE appended
      call == [pc |-> "entered",
               user_message |-> user_message,
               document_context |-> document_context,
               intent |-> _analyze_intent(user_message),
               retrieved_regulations |-> <<>>,
               response |-> None,
               failed |-> {}]
      entered == [agent EXCEPT !.history = history]
  IN  IF agent.retriever /\ call.intent \in GroundedIntents
      THEN Suspend(entered, Append(clk2, s), s, call, "retrieving")
      ELSE AfterRetrieval(entered, clk2, s, call)

\* the agent the variables hold
Agent ==
  [verifier |-> llm_verifier, retriever |-> chat_retriever,
   history |-> conversation_history, calls |-> chat_call, turns |-> chat_turns]

\* no call is in progress on session s
NoCallOn(s) == chat_call[s].pc \in {"idle", "returned"}

ChatInit ==
  /\ llm_verifier = "unconstructed"
  /\ chat_retriever = FALSE
  /\ conversation_history = EmptyHistory
  /\ chat_sessions = EmptyHistory
  /\ chat_call = [s \in SessionIds |-> IdleCall]
  /\ clock = <<>>
  /\ chat_turns = [s \in SessionIds |-> 0]
  /\ requests_served = [s \in SessionIds |-> 0]

\* ConversationalComplianceAgent(llm_verifier, retriever)
ConstructChatAgent ==
  /\ llm_verifier = "unconstructed"
  /\ \E v \in Verifiers : llm_verifier' = v
  /\ \E r \in BOOLEAN : chat_retriever' = r
  /\ UNCHANGED <<conversation_history, chat_sessions, chat_call, clock, chat_turns,
                 requests_served>>
  /\ UNCHANGED <<riskVars, agentVars, esVars, statsVars, parseVars, intentVars>>

\* start_session(s)
StartSession(s) ==
  /\ llm_verifier \in AnyVerifiers
  /\ NoCallOn(s)
  /\ conversation_history' = start_session(conversation_history, s, Timestamp(Len(clock)))
  /\ clock' = Append(clock, s)
  /\ chat_turns' = [chat_turns EXCEPT ![s] = 0]
  /\ UNCHANGED <<llm_verifier, chat_retriever, chat_sessions, chat_call, requests_served>>
  /\ UNCHANGED <<riskVars, agentVars, esVars, statsVars, parseVars, intentVars>>

\* chat(user_message, s, document_context) is called and runs until it
\* returns or waits for the retriever or the verifier
ChatCall(s, user_message, document_context) ==
  /\ llm_verifier \in AnyVerifiers
  /\ NoCallOn(s)
  /\ EnterChat(Agent, s, user_message, document_context)
  /\ UNCHANGED <<llm_verifier, chat_retriever, chat_sessions, requests_served>>
  /\ UNCHANGED <<riskVars, agentVars, esVars, statsVars, parseVars, intentVars>>

\* self.retriever.retrieve_similar_rules([pseudo_clause], top_k=3) returns
\* or raises, and the call goes on
RetrieverReturns(s) ==
  /\ chat_call[s].pc = "retrieving"
  /\ \E out \in ChatRetrievals :
       LET matches == IF out.raises = None /\ Len(out.results) > 0
                      THEN out.results[1].matches
                      ELSE <<>>
       IN  AfterRetrieval(Agent, clock, s,
                          [chat_call[s] EXCEPT !.retrieved_regulations = matches])
  /\ UNCHANGED <<llm_verifier, chat_retriever, chat_sessions, requests_served>>
  /\ UNCHANGED <<riskVars, agentVars, esVars, statsVars, parseVars, intentVars>>

\* self.llm_verifier.chat(prompt, session_id=session.get("session_id", "default"))
\* returns, and the call goes on to its end
VerifierChatReturns(s) ==
  /\ chat_call[s].pc = "generating"
  /\ \E outcome \in SendMessageOutcomes :
       LET call == chat_call[s]
           prompt == _build_contextual_prompt(call.user_message, call.intent,
                                              call.retrieved_regulations,
                                              call.document_context)
           reply == verifier_chat(chat_sessions, prompt,
                                  provider_session_id(conversation_history[s]),
                                  s, outcome)
       IN  /\ llm_verifier = "ChatVerifier" => outcome.raises = None
           /\ chat_sessions' = reply.chat_sessions
           /\ Complete(Agent, clock, s, call, reply.text, 9)
  /\ UNCHANGED <<llm_verifier, chat_retriever, requests_served>>
  /\ UNCHANGED <<riskVars, agentVars, esVars, statsVars, parseVars, intentVars>>

\* self.llm_verifier.chat(...) raises: `except Exception` of
\* _generate_response answers with the fallback text
VerifierChatRaises(s) ==
  /\ chat_call[s].pc = "generating"
  /\ llm_verifier = "ChatVerifier"
  /\ LET call == [chat_call[s] EXCEPT !.failed = @ \cup {"verifier"}]
     IN  Complete(Agent, clock, s, call,
                  _fallback_response(call.user_message, call.intent,
                                     call.retrieved_regulations), 5)
  /\ UNCHANGED <<llm_verifier, chat_retriever, chat_sessions, requests_served>>
  /\ UNCHANGED <<riskVars, agentVars, esVars, statsVars, parseVars, intentVars>>

\* clear_session(s)
ClearSession(s) ==
  /\ llm_verifier \in AnyVerifiers
  /\ NoCallOn(s)
  /\ LET cleared == clear_session(conversation_history, chat_sessions, llm_verifier, s)
     IN  /\ conversation_history' = cleared.conversation_history
         /\ chat_sessions' = cleared.chat_sessions
  /\ chat_turns' = [chat_turns EXCEPT ![s] = 0]
  /\ UNCHANGED <<llm_verifier, chat_retriever, chat_call, clock, requests_served>>
  /\ UNCHANGED <<riskVars, agentVars, esVars, statsVars, parseVars, intentVars>>

InitChat == ChatInit /\ RiskIdle /\ AgentIdle /\ StatsIdle /\ ParseIdle /\ IntentIdle

NextChat ==
  \/ ConstructChatAgent
  \/ \E s \in SessionIds : Len(clock) < MaxClock /\ StartSession(s)
  \/ \E s \in SessionIds, m \in ChatMessages, d \in DocumentContexts :
       Len(clock) < MaxClock /\ ChatCall(s, m, d)
  \/ \E s \in SessionIds : RetrieverReturns(s)
  \/ \E s \in SessionIds : VerifierChatReturns(s)
  \/ \E s \in SessionIds : ClearSession(s)

SpecChat == InitChat /\ [][NextChat]_vars

\* one agent, constructed without collaborators as compliance_chat constructs
\* it, serving the turns of one conversation
HistoryInit ==
  /\ llm_verifier = "None"
  /\ chat_retriever = FALSE
  /\ conversation_history = EmptyHistory
  /\ chat_sessions = EmptyHistory
  /\ chat_call = [s \in SessionIds |-> IdleCall]
  /\ clock = <<>>
  /\ chat_turns = [s \in SessionIds |-> 0]
  /\ requests_served = [s \in SessionIds |-> 0]

InitHistory == HistoryInit /\ RiskIdle /\ AgentIdle /\ StatsIdle /\ ParseIdle /\ IntentIdle

NextHistory ==
  \E m \in ChatMessages, d \in DocumentContexts :
    chat_turns["default"] < MaxTurns /\ ChatCall("default", m, d)

SpecHistory == InitHistory /\ [][NextHistory]_vars

\* one agent with any verifier, with or without a retriever, serving one
\* conversation whose collaborators may fail
AnswerInit ==
  /\ llm_verifier \in AnyVerifiers
  /\ chat_retriever \in BOOLEAN
  /\ conversation_history = EmptyHistory
  /\ chat_sessions = EmptyHistory
  /\ chat_call = [s \in SessionIds |-> IdleCall]
  /\ clock = <<>>
  /\ chat_turns = [s \in SessionIds |-> 0]
  /\ requests_served = [s \in SessionIds |-> 0]

InitAnswer == AnswerInit /\ RiskIdle /\ AgentIdle /\ StatsIdle /\ ParseIdle /\ IntentIdle

NextAnswer ==
  \/ \E m \in ChatMessages, d \in DocumentContexts :
       Len(clock) < MaxClock /\ ChatCall("default", m, d)
  \/ RetrieverReturns("default")
  \/ VerifierChatReturns("default")
  \/ VerifierChatRaises("default")

SpecAnswer == InitAnswer /\ [][NextAnswer]_vars

(***************************************************************************)
(* _analyze_intent applied to one message.                                 *)
(***************************************************************************)
\* the messages _analyze_intent is applied to
IntentMessages ==
  {<<"f","e","e"," ","o","k">>,
   <<"o","k">>,
   <<"f","e","e"," ","c","o","m","p","l","i","a","n","t">>,
   <<"V","I","O","L","A","T","I","O","N">>,
   <<"u","n","c","o","m","p","l","y","i","n","g"," ","o","k">>,
   <<"f","e","e"," ","S","E","B","I">>,
   <<"P","r","o","v","i","s","i","o","n","a","l">>,
   <<"r","u","l","e"," ","o","k">>,
   <<"f","e","e"," ","c","o","m","p","l","i","a","n","t"," ","S","E","B","I">>,
   <<"f","e","e"," ","S","E","B","I"," ","c","o","m","p","l","i","a","n","t">>,
   <<"V","I","O","L","A","T","I","O","N"," ","P","r","o","v","i","s","i","o","n","a","l">>,
   <<"P","r","o","v","i","s","i","o","n","a","l"," ","V","I","O","L","A","T","I","O","N">>,
   <<"u","n","c","o","m","p","l","y","i","n","g"," ","r","u","l","e"," ","o","k">>,
   <<"r","u","l","e"," ","u","n","c","o","m","p","l","y","i","n","g"," ","o","k">>,
   <<"f","e","e"," ","e","n","d","a","n","g","e","r","e","d">>,
   <<"r","i","s","k">>,
   <<"P","e","n","a","l","t","y"," ","o","k">>,
   <<"f","e","e"," ","c","o","m","p","l","i","a","n","t"," ","e","n","d","a","n","g","e","r","e","d">>,
   <<"f","e","e"," ","e","n","d","a","n","g","e","r","e","d"," ","c","o","m","p","l","i","a","n","t">>,
   <<"V","I","O","L","A","T","I","O","N"," ","r","i","s","k">>,
   <<"r","i","s","k"," ","V","I","O","L","A","T","I","O","N">>,
   <<"u","n","c","o","m","p","l","y","i","n","g"," ","P","e","n","a","l","t","y"," ","o","k">>,
   <<"P","e","n","a","l","t","y"," ","u","n","c","o","m","p","l","y","i","n","g"," ","o","k">>,
   <<"f","e","e"," ","S","E","B","I"," ","e","n","d","a","n","g","e","r","e","d">>,
   <<"f","e","e"," ","e","n","d","a","n","g","e","r","e","d"," ","S","E","B","I">>,
   <<"P","r","o","v","i","s","i","o","n","a","l"," ","r","i","s","k">>,
   <<"r","i","s","k"," ","P","r","o","v","i","s","i","o","n","a","l">>,
   <<"r","u","l","e"," ","P","e","n","a","l","t","y"," ","o","k">>,
   <<"P","e","n","a","l","t","y"," ","r","u","l","e"," ","o","k">>,
   <<"f","e","e"," ","c","o","m","p","l","i","a","n","t"," ","S","E","B","I"," ","e","n","d","a","n","g","e","r","e","d">>,
   <<"f","e","e"," ","e","n","d","a","n","g","e","r","e","d"," ","S","E","B","I"," ","c","o","m","p","l","i","a","n","t">>,
   <<"V","I","O","L","A","T","I","O","N"," ","P","r","o","v","i","s","i","o","n","a","l"," ","r","i","s","k">>,
   <<"r","i","s","k"," ","P","r","o","v","i","s","i","o","n","a","l"," ","V","I","O","L","A","T","I","O","N">>,
   <<"u","n","c","o","m","p","l","y","i","n","g"," ","r","u","l","e"," ","P","e","n","a","l","t","y"," ","o","k">>,
   <<"P","e","n","a","l","t","y"," ","r","u","l","e"," ","u","n","c","o","m","p","l","y","i","n","g"," ","o","k">>,
   <<"f","e","e"," ","w","h","a","t">>,
   <<"s","o","m","e","h","o","w">>,
   <<"W","H","Y"," ","o","k">>,
   <<"f","e","e"," ","c","o","m","p","l","i","a","n","t"," ","w","h","a","t">>,
   <<"f","e","e"," ","w","h","a","t"," ","c","o","m","p","l","i","a","n","t">>,
   <<"V","I","O","L","A","T","I","O","N"," ","s","o","m","e","h","o","w">>,
   <<"s","o","m","e","h","o","w"," ","V","I","O","L","A","T","I","O","N">>,
   <<"u","n","c","o","m","p","l","y","i","n","g"," ","W","H","Y"," ","o","k">>,
   <<"W","H","Y"," ","u","n","c","o","m","p","l","y","i","n","g"," ","o","k">>,
   <<"f","e","e"," ","S","E","B","I"," ","w","h","a","t">>,
   <<"f","e","e"," ","w","h","a","t"," ","S","E","B","I">>,
   <<"P","r","o","v","i","s","i","o","n","a","l"," ","s","o","m","e","h","o","w">>,
   <<"s","o","m","e","h","o","w"," ","P","r","o","v","i","s","i","o","n","a","l">>,
   <<"r","u","l","e"," ","W","H","Y"," ","o","k">>,
   <<"W","H","Y"," ","r","u","l","e"," ","o","k">>,
   <<"f","e","e"," ","c","o","m","p","l","i","a","n","t"," ","S","E","B","I"," ","w","h","a","t">>,
   <<"f","e","e"," ","w","h","a","t"," ","S","E","B","I"," ","c","o","m","p","l","i","a","n","t">>,
   <<"V","I","O","L","A","T","I","O","N"," ","P","r","o","v","i","s","i","o","n","a","l"," ","s","o","m","e","h","o","w">>,
   <<"s","o","m","e","h","o","w"," ","P","r","o","v","i","s","i","o","n","a","l"," ","V","I","O","L","A","T","I","O","N">>,
   <<"u","n","c","o","m","p","l","y","i","n","g"," ","r","u","l","e"," ","W","H","Y"," ","o","k">>,
   <<"W","H","Y"," ","r","u","l","e"," ","u","n","c","o","m","p","l","y","i","n","g"," ","o","k">>,
   <<"f","e","e"," ","e","n","d","a","n","g","e","r","e","d"," ","w","h","a","t">>,
   <<"f","e","e"," ","w","h","a","t"," ","e","n","d","a","n","g","e","r","e","d">>,
   <<"r","i","s","k"," ","s","o","m","e","h","o","w">>,
   <<"s","o","m","e","h","o","w"," ","r","i","s","k">>,
   <<"P","e","n","a","l","t","y"," ","W","H","Y"," ","o","k">>,
   <<"W","H","Y"," ","P","e","n","a","l","t","y"," ","o","k">>,
   <<"f","e","e"," ","c","o","m","p","l","i","a","n","t"," ","e","n","d","a","n","g","e","r","e","d"," ","w","h","a","t">>,
   <<"f","e","e"," ","w","h","a","t"," ","e","n","d","a","n","g","e","r","e","d"," ","c","o","m","p","l","i","a","n","t">>,
   <<"V","I","O","L","A","T","I","O","N"," ","r","i","s","k"," ","s","o","m","e","h","o","w">>,
   <<"s","o","m","e","h","o","w"," ","r","i","s","k"," ","V","I","O","L","A","T","I","O","N">>,
   <<"u","n","c","o","m","p","l","y","i","n","g"," ","P","e","n","a","l","t","y"," ","W","H","Y"," ","o","k">>,
   <<"W","H","Y"," ","P","e","n","a","l","t","y"," ","u","n","c","o","m","p","l","y","i","n","g"," ","o","k">>,
   <<"f","e","e"," ","S","E","B","I"," ","e","n","d","a","n","g","e","r","e","d"," ","w","h","a","t">>,
   <<"f","e","e"," ","w","h","a","t"," ","e","n","d","a","n","g","e","r","e","d"," ","S","E","B","I">>,
   <<"P","r","o","v","i","s","i","o","n","a","l"," ","r","i","s","k"," ","s","o","m","e","h","o","w">>,
   <<"s","o","m","e","h","o","w"," ","r","i","s","k"," ","P","r","o","v","i","s","i","o","n","a","l">>,
   <<"r","u","l","e"," ","P","e","n","a","l","t","y"," ","W","H","Y"," ","o","k">>,
   <<"W","H","Y"," ","P","e","n","a","l","t","y"," ","r","u","l","e"," ","o","k">>,
   <<"f","e","e"," ","c","o","m","p","l","i","a","n","t"," ","S","E","B","I"," ","e","n","d","a","n","g","e","r","e","d"," ","w","h","a","t">>,
   <<"f","e","e"," ","w","h","a","t"," ","e","n","d","a","n","g","e","r","e","d"," ","S","E","B","I"," ","c","o","m","p","l","i","a","n","t">>,
   <<"V","I","O","L","A","T","I","O","N"," ","P","r","o","v","i","s","i","o","n","a","l"," ","r","i","s","k"," ","s","o","m","e","h","o","w">>,
   <<"s","o","m","e","h","o","w"," ","r","i","s","k"," ","P","r","o","v","i","s","i","o","n","a","l"," ","V","I","O","L","A","T","I","O","N">>,
   <<"u","n","c","o","m","p","l","y","i","n","g"," ","r","u","l","e"," ","P","e","n","a","l","t","y"," ","W","H","Y"," ","o","k">>,
   <<"W","H","Y"," ","P","e","n","a","l","t","y"," ","r","u","l","e"," ","u","n","c","o","m","p","l","y","i","n","g"," ","o","k">>}

IntentInit ==
  /\ intent_message \in IntentMessages
  /\ intent_result = ""

\* intent = self._analyze_intent(user_message, session)
AnalyzeIntent ==
  /\ intent_result = ""
  /\ intent_result' = _analyze_intent(intent_message)
  /\ UNCHANGED intent_message
  /\ UNCHANGED <<riskVars, agentVars, esVars, statsVars, parseVars, chatVars>>

InitIntent == IntentInit /\ RiskIdle /\ AgentIdle /\ StatsIdle /\ ParseIdle /\ ChatIdle

NextIntent == AnalyzeIntent

SpecIntent == InitIntent /\ [][NextIntent]_vars

(***************************************************************************)
(* run_pipeline.py compliance_chat: the chat endpoint.  The variables of   *)
(* the agent hold the agent of the request served last.                    *)
(***************************************************************************)
\* ConversationalComplianceAgent(): no verifier, no retriever, an empty table
NewChatAgent ==
  [verifier |-> "None", retriever |-> FALSE, history |-> EmptyHistory,
   calls |-> [s \in SessionIds |-> IdleCall], turns |-> [s \in SessionIds |-> 0]]

\* chat_agent = ConversationalComplianceAgent(): the agent a request is served by
RequestAgent(agent) == NewChatAgent

\* POST /api/compliance/chat with a message, a session_id and a document_context
ComplianceChat(s, message, document_context) ==
  /\ message # <<>>
  /\ EnterChat(RequestAgent(IF llm_verifier = "unconstructed" THEN NewChatAgent ELSE Agent),
               s, message, document_context)
  /\ llm_verifier' = "None"
  /\ chat_retriever' = FALSE
  /\ chat_sessions' = EmptyHistory
  /\ requests_served' = [requests_served EXCEPT ![s] = @ + 1]
  /\ UNCHANGED <<riskVars, agentVars, esVars, statsVars, parseVars, intentVars>>

RequestsServed == requests_served["default"] + requests_served["s1"]

InitEndpoint ==
  ChatInit /\ RiskIdle /\ AgentIdle /\ StatsIdle /\ ParseIdle /\ IntentIdle

NextEndpoint ==
  \E s \in SessionIds, m \in ChatMessages, d \in DocumentContexts :
    RequestsServed < MaxRequests /\ ComplianceChat(s, m, d)

SpecEndpoint == InitEndpoint /\ [][NextEndpoint]_vars

C15_ClearSessionClearsVerifierSession ==
  [][\A s \in SessionIds :
       ClearSession(s) =>
         /\ conversation_history'[s] = None
         /\ \A k \in SessionIds :
              chat_sessions'[k] # None => chat_sessions'[k].created_for # s]_vars

\* C16: a record exists for an id only after a chat() or start_session() call
\* was made on the id (such a call read the clock); chat() on an unseen id
\* starts the record empty and appends the user message to it; chat() on an
\* id that has a record leaves started_at alone and keeps the messages and
\* the context entries the record had.
C16_SessionsAreCreatedLazily ==
  /\ [](\A s \in SessionIds :
          conversation_history[s] # None => \E t \in 1..Len(clock) : clock[t] = s)
  /\ [][\A s \in SessionIds, m \in ChatMessages, d \in DocumentContexts :
          ChatCall(s, m, d) =>
            LET old == conversation_history[s]
                new == conversation_history'[s]
            IN  IF old = None
                THEN /\ new # None
                     /\ new.started_at = Timestamp(Len(clock))
                     /\ new.messages[1] = [role |-> "user", content |-> m,
                                           timestamp |-> new.started_at + 1]
                     /\ \A k \in 1..Len(new.messages) :
                          new.messages[k].timestamp > new.started_at
                ELSE /\ new # None
                     /\ new.started_at = old.started_at
                     /\ old.context \subseteq new.context \/ d # None
                     /\ Len(old.messages) < max_history * 2 =>
                          /\ Len(new.messages) > Len(old.messages)
                          /\ SubSeq(new.messages, 1, Len(old.messages)) = old.messages
                          /\ new.messages[Len(old.messages) + 1].content = m]_vars

\* a second chat() call was served on the record the first one created
C16_Witness ==
  \E s \in SessionIds :
    /\ conversation_history[s] # None
    /\ chat_turns[s] = 2
    /\ Len(conversation_history[s].messages) = 4
    /\ conversation_history[s].messages[1].timestamp = conversation_history[s].started_at + 1

\* C17: with the calls of two session ids interleaved at the retriever and
\* verifier calls, every stored message of a session was appended by a call
\* made with that session id (its timestamp is a clock reading of such a
\* call), and a step of a call on one id leaves the record of the other id
\* as it was.
C17_SessionsDoNotMix ==
  /\ [](\A s \in SessionIds :
          conversation_history[s] # None =>
            \A k \in 1..Len(conversation_history[s].messages) :
              clock[conversation_history[s].messages[k].timestamp] = s)
  /\ [][\A s \in SessionIds :
          (\/ \E m \in ChatMessages, d \in DocumentContexts : ChatCall(s, m, d)
           \/ RetrieverReturns(s)
           \/ VerifierChatReturns(s)
           \/ StartSession(s)
           \/ ClearSession(s)) =>
            \A t \in SessionIds \ {s} :
              conversation_history'[t] = conversation_history[t]]_vars

\* a call on s1 ran between the two messages of a call on default
C17_Witness ==
  /\ conversation_history["default"] # None
  /\ conversation_history["s1"] # None
  /\ Len(conversation_history["default"].messages) = 2
  /\ Len(conversation_history["s1"].messages) = 2
  /\ conversation_history["default"].messages[1].timestamp
       < conversation_history["s1"].messages[1].timestamp
  /\ conversation_history["s1"].messages[2].timestamp
       < conversation_history["default"].messages[2].timestamp

\* C18: requests with the same session_id served by the chat endpoint
\* accumulate in one conversation record: after the n-th request of a session
\* its record holds the messages of all n requests (2 n of them, up to 20).
C18_RequestsAccumulate ==
  \A s \in SessionIds :
    (conversation_history[s] # None /\ requests_served[s] >= 1) =>
      Len(conversation_history[s].messages) = Min(2 * requests_served[s], 20)

\* the groups of _analyze_intent by priority
KeywordGroups ==
  <<[intent |-> "compliance_check", words |-> compliance_check_words],
    [intent |-> "regulation_lookup", words |-> regulation_lookup_words],
    [intent |-> "risk_assessment", words |-> risk_assessment_words],
    [intent |-> "clarification", words |-> clarification_words]>>

\* the groups with a keyword that occurs in the message, whatever the case of
\* the occurrence
GroupsOccurring(message) ==
  {g \in 1..Len(KeywordGroups) :
     \E i \in 1..Len(KeywordGroups[g].words) :
       LET word == KeywordGroups[g].words[i]
       IN  \E p \in 1..Len(message) :
             /\ p + Len(word) - 1 <= Len(message)
             /\ Lower(SubSeq(message, p, p + Len(word) - 1)) = word}

\* C19: the intent is that of the first group, in the order compliance_check,
\* regulation_lookup, risk_assessment, clarification, with a keyword occurring
\* in the message case-insensitively as a substring; it is general_question
\* when no group has one.
C19_FirstKeywordGroupWins ==
  intent_result # "" =>
    LET groups == GroupsOccurring(intent_message)
    IN  IF groups = {} THEN intent_result = "general_question"
        ELSE \E g \in groups :
               /\ \A h \in groups : g <= h
               /\ intent_result = KeywordGroups[g].intent

\* several groups occur, in another case than the keywords', the first of
\* them is not the first of the chain
C19_Witness ==
  /\ intent_result = "regulation_lookup"
  /\ GroupsOccurring(intent_message) = {2, 3, 4}
  /\ Lower(intent_message) # intent_message

\* the templated text for the intent and the regulations of the call on s
FallbackOf(s) ==
  _fallback_response(chat_call[s].user_message,
                     _analyze_intent(chat_call[s].user_message),
                     chat_call[s].response.some.retrieved_regulations)

C28_ProviderSessionPerConversation ==
  \A k \in SessionIds :
     chat_sessions[k] # None =>
        /\ chat_sessions[k].turns_of \subseteq {k}
        /\ chat_sessions[k].created_for = k

\* the stored messages alternate user, assistant, ... starting with a user
\* message, and there is an even number of them
Alternates(messages) ==
  /\ Len(messages) % 2 = 0
  /\ \A k \in 1..Len(messages) :
       messages[k].role = IF k % 2 = 1 THEN "user" ELSE "assistant"

\* C30: after every completed chat() call (calls on one session being
\* sequential), that session's stored message list has even length and
\* alternates strictly user, assistant, ... starting with a user message, also
\* after trimming; each call adds exactly one user and one assistant message
\* before trimming.
C30_MessagesAlternate ==
  /\ [](\A s \in SessionIds :
          (conversation_history[s] # None /\ NoCallOn(s)) =>
             Alternates(conversation_history[s].messages))
  /\ [][\A s \in SessionIds :
          chat_turns'[s] = chat_turns[s] + 1 =>
             LET stored == IF conversation_history[s] = None THEN <<>>
                           ELSE conversation_history[s].messages
                 \* a call that waited for a collaborator has its user
                 \* message in the list already
                 before == IF NoCallOn(s) THEN stored
                           ELSE SubSeq(stored, 1, Len(stored) - 1)
                 after == conversation_history'[s].messages
                 n == Len(after)
                 kept == Min(Len(before), max_history * 2 - 2)
             IN  /\ n = Min(Len(before) + 2, max_history * 2)
                 /\ after[n - 1].role = "user"
                 /\ after[n - 1].content = chat_call'[s].user_message
                 /\ after[n].role = "assistant"
                 /\ after[n].content = chat_call'[s].response.some.answer
                 /\ SubSeq(after, 1, n - 2)
                      = SubSeq(before, Len(before) - kept + 1, Len(before))]_vars

\* the call that made the history exceed max_history * 2 entries for the first
\* time has completed: the trimmed list starts with a user message
C30_Witness ==
  /\ chat_call["default"].pc = "returned"
  /\ chat_turns["default"] = max_history + 1
  /\ Len(conversation_history["default"].messages) = max_history * 2
  /\ conversation_history["default"].messages[1].role = "user"
  /\ conversation_history["default"].messages[1].timestamp > 1
  /\ conversation_history["default"].messages[max_history * 2].role = "assistant"

====
